---- MODULE Spec2Model ----
(***************************************************************************)
(* Model of the shode execution engine (package engine, the ExecutionEngine *)
(* of pkg/repl/repl.go lines 369-1189) together with the collaborators it   *)
(* drives: the EnvironmentManager, the security checker, the command cache  *)
(* and the operating system (files, binaries on the search path).           *)
(*                                                                         *)
(* Every Go function of the engine is an operator of the same name that     *)
(* takes the engine/world state `st` and returns the function's result, its *)
(* fatal error ("" is Go's nil error) and the state it leaves behind.       *)
(* One Execute call is driven node by node by the actions at the end.       *)
(***************************************************************************)
EXTENDS Integers, Sequences, FiniteSets, TLC

(***************************************************************************)
(* Bounds of the model.                                                     *)
(***************************************************************************)
MaxScriptLen == 3      \* longest generated sequence of top-level nodes
MaxCalls == 2          \* Execute calls made on one engine in one behaviour
MaxTime == 1           \* the clock stops advancing here
CacheTTL == 1          \* validity window of a cache entry, in clock ticks
MaxWorldChanges == 1   \* edits of the file system made behind the engine's back
MaxCallers == 3        \* goroutines calling into one engine at the same time
MaxThreads == 2        \* goroutines using one EnvironmentManager at the same time
MaxManagerOps == 4     \* operations made on one EnvironmentManager
MaxSessions == 1       \* Sessions created from one EnvironmentManager
MaxResults == 3        \* ExecuteCommand calls made on one engine with a heap
MaxLeaves == 4         \* leaves of the largest pipeline tree
MaxAdders == 2         \* goroutines adding a directory to PATH
MaxRegistryThreads == 2  \* goroutines calling one registry Cache

(***************************************************************************)
(* Program constants.                                                       *)
(***************************************************************************)
maxIterations == 3     \* ExecuteWhile's safety limit (10000 in the source)
CacheMaxSize == 1000   \* NewCommandCache(1000)
PoolMaxSize == 2       \* NewProcessPool(10, 30s): 10 in the source

ModeInterpreted == "Interpreted"   \* iota 0: the zero value of ExecutionMode
ModeProcess == "Process"
ModeHybrid == "Hybrid"

Nil == <<>>            \* a nil pointer field: <<>> is nil, <<v>> points to v

(***************************************************************************)
(* The AST (pkg/types/ast.go, and the control-flow nodes the engine uses).  *)
(***************************************************************************)
RedirectNode(op, file, fd) ==
    [kind |-> "RedirectNode", Op |-> op, File |-> file, Fd |-> fd]

CommandNode(name, args, redirect) ==
    [kind |-> "CommandNode", Name |-> name, Args |-> args, Redirect |-> redirect]

PipeNode(left, right) ==
    [kind |-> "PipeNode", Left |-> left, Right |-> right]

ScriptNode(nodes) ==
    [kind |-> "ScriptNode", Nodes |-> nodes]

IfNode(condition, then, else) ==
    [kind |-> "IfNode", Condition |-> condition, Then |-> then, Else |-> else]

ForNode(variable, list, body) ==
    [kind |-> "ForNode", Variable |-> variable, List |-> list, Body |-> body]

WhileNode(condition, body) ==
    [kind |-> "WhileNode", Condition |-> condition, Body |-> body]

AssignmentNode(name, value) ==
    [kind |-> "AssignmentNode", Name |-> name, Value |-> value]

FunctionNode ==
    [kind |-> "FunctionNode"]

(***************************************************************************)
(* Results.                                                                 *)
(***************************************************************************)
CommandResult(cmd, success, exitCode, output, error, mode) ==
    [Command |-> cmd, Success |-> success, ExitCode |-> exitCode,
     Output |-> output, Error |-> error, Mode |-> mode]

ExecutionResult(success, exitCode, commands) ==
    [Success |-> success, ExitCode |-> exitCode, Output |-> "", Error |-> "",
     Commands |-> commands]

PipelineResult(success, exitCode, output, error, results) ==
    [Success |-> success, ExitCode |-> exitCode, Output |-> output,
     Error |-> error, Results |-> results]

\* What a Go function hands back: its value, its error and the state after it.
Ret(res, err, st) == [res |-> res, err |-> err, st |-> st]

NoResult == [none |-> TRUE]        \* the nil result that accompanies an error

\* A local variable: `x := value`, then the statements F that follow it.
Bind(value, F(_)) == F(value)

PanicIndex == "panic: index out of range"

Logged(st, event) == [st EXCEPT !.log = Append(@, event)]

(***************************************************************************)
(* EnvironmentManager (pkg/environment/manager.go).                         *)
(***************************************************************************)
GetWorkingDir(em) == em.workingDir

SetEnv(em, key, value) ==
    [em EXCEPT !.environment =
        [k \in (DOMAIN em.environment) \cup {key} |->
            IF k = key THEN value ELSE em.environment[k]]]

GetAllEnv(em) == em.environment

(***************************************************************************)
(* EnvironmentManager with its maps as objects, and Session.  A map is      *)
(* named by its address in `maps`; two fields holding the same address hold  *)
(* the same map.  A path is the sequence of its components, the root        *)
(* directory the empty sequence; the argument of ChangeDir says whether it  *)
(* starts with a slash.                                                      *)
(***************************************************************************)
RootDir == <<>>

\* The directories and the regular files of the file system.
Directories == {<<>>, <<"a">>, <<"a", "b">>}

RegularFiles == {<<"a", "f">>}

\* filepath.Clean of an absolute path: "." is dropped, ".." removes the
\* component before it and is dropped at the root.
RECURSIVE CleanFrom(_, _)
CleanFrom(done, parts) ==
    IF parts = <<>> THEN done
    ELSE IF Head(parts) = "." THEN CleanFrom(done, Tail(parts))
    ELSE IF Head(parts) = ".."
    THEN CleanFrom(IF done = <<>> THEN done
                   ELSE SubSeq(done, 1, Len(done) - 1), Tail(parts))
    ELSE CleanFrom(Append(done, Head(parts)), Tail(parts))

Clean(path) == CleanFrom(<<>>, path)

\* filepath.Join(em.workingDir, dir)
Join(base, parts) == Clean(base \o parts)

IsAbs(dir) == dir.abs

\* os.Stat: what is found at the path.
Stat(path) ==
    IF path \in Directories THEN "dir"
    ELSE IF path \in RegularFiles THEN "file"
    ELSE "absent"

\* A manager that takes any path at which something is found.
ChangeDir_AnyKind(m, dir) ==
    LET joined  == IF ~IsAbs(dir) THEN Join(m.workingDir, dir.parts)
                   ELSE dir.parts
        cleaned == Clean(joined)
    IN  IF Stat(cleaned) = "absent"
        THEN [err |-> "directory does not exist", m |-> m]
        ELSE [err |-> "", m |-> [m EXCEPT !.workingDir = cleaned]]

\* (error, manager)
ChangeDir(m, dir) ==
    LET joined  == IF ~IsAbs(dir) THEN Join(m.workingDir, dir.parts)
                   ELSE dir.parts
        cleaned == Clean(joined)
    IN  IF Stat(cleaned) # "dir"
        THEN [err |-> "directory does not exist", m |-> m]
        ELSE [err |-> "", m |-> [m EXCEPT !.workingDir = cleaned]]

MapPut(map, key, value) ==
    [k \in (DOMAIN map) \cup {key} |-> IF k = key THEN value ELSE map[k]]

\* em.environment[key]: the empty string for a key that is not there.
ManagerGetEnv(m, key) ==
    IF key \in DOMAIN m.maps[m.environment]
    THEN m.maps[m.environment][key] ELSE ""

\* em.environment[key] = value
ManagerSetEnv(m, key, value) ==
    [m EXCEPT !.maps[m.environment] = MapPut(@, key, value)]

\* The copy GetAllEnv returns.
ManagerGetAllEnv(m) == m.maps[m.environment]

\* (session, manager): the Session holds a new map, filled from the manager's.
CreateSession(m) ==
    [session |-> [workingDir |-> m.workingDir,
                  environment |-> Len(m.maps) + 1],
     m |-> [m EXCEPT !.maps = Append(@, m.maps[m.environment])]]

\* s.environment[key] = value
SessionSetEnv(m, session, key, value) ==
    [m EXCEPT !.maps[session.environment] = MapPut(@, key, value)]

SessionGetEnv(m, session, key) ==
    IF key \in DOMAIN m.maps[session.environment]
    THEN m.maps[session.environment][key] ELSE ""

\* em.workingDir = session.workingDir; em.environment = session.environment
ApplySession(m, session) ==
    [m EXCEPT !.workingDir = session.workingDir,
              !.environment = session.environment]

\* What the manager answers to its callers: its variables and its directory.
StoreState(m) == [env |-> ManagerGetAllEnv(m), dir |-> m.workingDir]

(***************************************************************************)
(* The security checker: `rm` is on the list of blocked commands.           *)
(***************************************************************************)
DangerousCommands == {"rm"}

\* "" when the command is accepted, else the text of the rejection.
CheckCommand(cmd) ==
    IF cmd.Name \in DangerousCommands THEN "dangerous command" ELSE ""

(***************************************************************************)
(* The operating system: files, the host process's own environment, the     *)
(* binaries found on the search path and what each of them does.            *)
(***************************************************************************)
WritableFiles == {"f"}     \* any other path cannot be created (no such directory)

FileExists(os, file) == file \in DOMAIN os.files

WriteFileContent(os, file, content) ==
    [os EXCEPT !.files =
        [g \in (DOMAIN os.files) \cup {file} |->
            IF g = file THEN content ELSE os.files[g]]]

\* os.Setenv on the host process.
OsSetenv(os, key, value) ==
    [os EXCEPT !.environ =
        [k \in (DOMAIN os.environ) \cup {key} |->
            IF k = key THEN value ELSE os.environ[k]]]

\* The directories of the host.
OsDirectories == {"/", "/tmp"}

\* os.Chdir on the host process, to a directory that exists.
OsChdir(os, dir) == [os EXCEPT !.cwd = dir]

\* os.Getenv: the empty string for a variable that is not set.
OsGetenv(os, key) ==
    IF key \in DOMAIN os.environ THEN os.environ[key] ELSE ""

\* What a binary does with its arguments, stdin text, environment block and
\* the files it can see: exit code, text written to stdout and to stderr, and
\* whether it reads its stdin at all.
RunBinary(name, args, stdin, env, files) ==
    CASE name = "echo" ->
            [exit |-> 0, out |-> IF Len(args) > 0 THEN args[1] ELSE "",
             err |-> "", readsStdin |-> FALSE]
      [] name = "false" ->
            [exit |-> 1, out |-> "", err |-> "", readsStdin |-> FALSE]
      [] name = "cat" ->
            IF Len(args) = 0
            THEN [exit |-> 0, out |-> stdin, err |-> "", readsStdin |-> TRUE]
            ELSE IF args[1] \in DOMAIN files
                 THEN [exit |-> 0, out |-> files[args[1]], err |-> "",
                       readsStdin |-> FALSE]
                 ELSE [exit |-> 1, out |-> "", err |-> "cat: no such file",
                       readsStdin |-> FALSE]
      [] name = "printenv" ->
            IF Len(args) > 0 /\ args[1] \in DOMAIN env
            THEN [exit |-> 0, out |-> env[args[1]], err |-> "",
                  readsStdin |-> FALSE]
            ELSE [exit |-> 1, out |-> "", err |-> "", readsStdin |-> FALSE]
      [] name = "test" ->
            \* test ! -e FILE
            IF Len(args) = 3 /\ args[3] \notin DOMAIN files
            THEN [exit |-> 0, out |-> "", err |-> "", readsStdin |-> FALSE]
            ELSE [exit |-> 1, out |-> "", err |-> "", readsStdin |-> FALSE]
      [] name = "ls" ->
            IF Len(args) = 0 \/ args[1] \in DOMAIN files
            THEN [exit |-> 0, out |-> "f", err |-> "", readsStdin |-> FALSE]
            ELSE [exit |-> 2, out |-> "", err |-> "ls: cannot access",
                  readsStdin |-> FALSE]
      [] OTHER ->
            \* any other binary that happens to be on the search path
            [exit |-> 0, out |-> "external", err |-> "", readsStdin |-> FALSE]

\* exec.LookPath
isExternalCommandAvailable(os, name) == name \in os.path

\* A child whose descriptor is a handle the parent already closed starts with
\* that descriptor closed: every read or write on it fails.
ChildOutcome(b, io) ==
    LET stdinBad  == io.stdin = "closed" /\ b.readsStdin
        stdoutBad == io.stdout = "closed" /\ b.out # ""
        stderrBad == io.stderr = "closed" /\ b.err # ""
    IN  [exit |-> IF b.exit # 0 THEN b.exit
                  ELSE IF stdinBad \/ stdoutBad \/ stderrBad THEN 1 ELSE 0,
         out  |-> IF stdinBad THEN "" ELSE b.out,
         err  |-> b.err]

(***************************************************************************)
(* CommandCache: get/put keyed by the exact (name, args) pair, entries      *)
(* invalid once older than the TTL, the oldest entry evicted when full.     *)
(* `bypass` switches every lookup to a miss (the cache-bypassed twin run).  *)
(***************************************************************************)
CacheKey(name, args) == <<name, args>>

CacheValid(cache, key, now) ==
    /\ ~cache.bypass
    /\ key \in DOMAIN cache.entries
    /\ now - cache.entries[key].insertedAt < CacheTTL

CacheGet(cache, name, args, now) ==
    LET key == CacheKey(name, args)
    IN  IF CacheValid(cache, key, now)
        THEN [hit |-> TRUE, result |-> cache.entries[key].result, cache |-> cache]
        ELSE [hit |-> FALSE, result |-> NoResult,
              cache |-> [cache EXCEPT !.entries =
                            [k \in (DOMAIN cache.entries) \ {key} |->
                                cache.entries[k]]]]

CacheOldest(cache) ==
    CHOOSE k \in DOMAIN cache.entries :
        \A j \in DOMAIN cache.entries :
            cache.entries[k].insertedAt <= cache.entries[j].insertedAt

CachePut(cache, name, args, result, now) ==
    LET key  == CacheKey(name, args)
        full == /\ key \notin DOMAIN cache.entries
                /\ Cardinality(DOMAIN cache.entries) >= CacheMaxSize
        kept == IF full THEN (DOMAIN cache.entries) \ {CacheOldest(cache)}
                ELSE DOMAIN cache.entries
    IN  [cache EXCEPT !.entries =
            [k \in kept \cup {key} |->
                IF k = key THEN [result |-> result, insertedAt |-> now]
                ELSE cache.entries[k]]]

(***************************************************************************)
(* ExecutionEngine: single commands.                                        *)
(* The state `st` holds envManager, os, cache, now (the clock), log (the    *)
(* calls made to the collaborators, in order) and fault (whether a child    *)
(* that never reads its stdin has exited before the engine writes to it).   *)
(***************************************************************************)
isStdLibFunction(funcName) ==
    funcName \in {"Print", "Println", "Error", "Errorln", "ReadFile",
                  "WriteFile", "ListFiles", "FileExists", "Contains",
                  "Replace", "ToUpper", "ToLower", "Trim", "GetEnv", "SetEnv",
                  "WorkingDir", "ChangeDir"}

decideExecutionMode(cmd, st) ==
    IF isStdLibFunction(cmd.Name) THEN ModeInterpreted
    ELSE IF isExternalCommandAvailable(st.os, cmd.Name) THEN ModeProcess
    ELSE ModeProcess

\* The intrinsics the scripts of this model call; (output, error, state).
executeStdLibFunction(funcName, args, st) ==
    CASE funcName \in {"Print", "Println", "Error", "Errorln"} ->
            [out |-> IF Len(args) > 0 THEN args[1] ELSE "", err |-> "", st |-> st]
      [] funcName = "ReadFile" ->
            IF Len(args) = 0
            THEN [out |-> "", err |-> "ReadFile requires filename argument",
                  st |-> st]
            ELSE IF FileExists(st.os, args[1])
                 THEN [out |-> st.os.files[args[1]], err |-> "", st |-> st]
                 ELSE [out |-> "", err |-> "failed to read file", st |-> st]
      [] funcName = "WriteFile" ->
            IF Len(args) < 2
            THEN [out |-> "",
                  err |-> "WriteFile requires filename and content arguments",
                  st |-> st]
            ELSE IF args[1] \in WritableFiles
                 THEN [out |-> "File written", err |-> "",
                       st |-> [st EXCEPT !.os =
                                  WriteFileContent(@, args[1], args[2])]]
                 ELSE [out |-> "File written", err |-> "open: no such directory",
                       st |-> st]
      [] funcName = "GetEnv" ->
            IF Len(args) = 0
            THEN [out |-> "",
                  err |-> "GetEnv requires environment variable name",
                  st |-> st]
            ELSE [out |-> OsGetenv(st.os, args[1]), err |-> "", st |-> st]
      [] funcName = "SetEnv" ->
            IF Len(args) < 2
            THEN [out |-> "", err |-> "SetEnv requires key and value arguments",
                  st |-> st]
            ELSE [out |-> "Environment variable set", err |-> "",
                  st |-> [st EXCEPT !.os = OsSetenv(@, args[1], args[2])]]
      [] funcName = "WorkingDir" ->
            [out |-> st.os.cwd, err |-> "", st |-> st]
      [] funcName = "ChangeDir" ->
            IF Len(args) = 0
            THEN [out |-> "", err |-> "ChangeDir requires directory path",
                  st |-> st]
            ELSE IF args[1] \in OsDirectories
                 THEN [out |-> "Directory changed", err |-> "",
                       st |-> [st EXCEPT !.os = OsChdir(@, args[1])]]
                 ELSE [out |-> "Directory changed",
                       err |-> "chdir: no such file or directory", st |-> st]
      [] OTHER ->
            [out |-> "", err |-> "unknown standard library function", st |-> st]

executeInterpreted(cmd, st) ==
    Bind(executeStdLibFunction(cmd.Name, cmd.Args,
                               Logged(st, [ev |-> "intrinsic", cmd |-> cmd])),
         LAMBDA r :
            IF r.err # ""
            THEN Ret(CommandResult(cmd, FALSE, 1, "", r.err, ModeInterpreted),
                     "", r.st)
            ELSE Ret(CommandResult(cmd, TRUE, 0, r.out, "", ModeInterpreted),
                     "", r.st))

\* Binding of the child's stdio: "null" is a nil field (the null device),
\* "stdoutBuf" and "stderrBuf" the capture buffers, "pipe" the stdin pipe, "closed" a file
\* handle that setupRedirect closed on its return (its deferred file.Close).
NilStdio == [stdin |-> "null", stdout |-> "null", stderr |-> "null"]

\* A handle that is opened and stays open.
OpenedAndClosed_Leaked(st, file) ==
    Logged(st, [ev |-> "open", file |-> file])

\* Lines 999-1003: the file is opened and its Close deferred to the return of
\* setupRedirect.
OpenedAndClosed(st, file) ==
    Logged(Logged(st, [ev |-> "open", file |-> file]),
           [ev |-> "close", file |-> file])

\* (error, stdio bindings, state)
setupRedirect(io, redirect, st) ==
    CASE redirect.Op = ">" ->
            IF redirect.File \notin WritableFiles
            THEN [err |-> "failed to create file", io |-> io, st |-> st]
            ELSE [err |-> "",
                  io  |-> IF redirect.Fd \in {0, 1}
                          THEN [io EXCEPT !.stdout = "closed"]
                          ELSE IF redirect.Fd = 2
                               THEN [io EXCEPT !.stderr = "closed"]
                               ELSE io,
                  st  |-> OpenedAndClosed(
                            [st EXCEPT !.os =
                                WriteFileContent(@, redirect.File, "")],
                            redirect.File)]
      [] redirect.Op = ">>" ->
            IF redirect.File \notin WritableFiles
            THEN [err |-> "failed to open file", io |-> io, st |-> st]
            ELSE [err |-> "",
                  io  |-> IF redirect.Fd \in {0, 1}
                          THEN [io EXCEPT !.stdout = "closed"]
                          ELSE IF redirect.Fd = 2
                               THEN [io EXCEPT !.stderr = "closed"]
                               ELSE io,
                  st  |-> OpenedAndClosed(
                            IF FileExists(st.os, redirect.File) THEN st
                            ELSE [st EXCEPT !.os =
                                    WriteFileContent(@, redirect.File, "")],
                            redirect.File)]
      [] redirect.Op = "<" ->
            IF ~FileExists(st.os, redirect.File)
            THEN [err |-> "failed to open file", io |-> io, st |-> st]
            ELSE [err |-> "", io |-> [io EXCEPT !.stdin = "closed"],
                  st |-> OpenedAndClosed(st, redirect.File)]
      [] redirect.Op = "2>&1" ->
            [err |-> "", io |-> [io EXCEPT !.stderr = io.stdout], st |-> st]
      [] redirect.Op = "&>" ->
            IF redirect.File \notin WritableFiles
            THEN [err |-> "failed to create file", io |-> io, st |-> st]
            ELSE [err |-> "",
                  io  |-> [io EXCEPT !.stdout = "closed", !.stderr = "closed"],
                  st  |-> OpenedAndClosed(
                            [st EXCEPT !.os =
                                WriteFileContent(@, redirect.File, "")],
                            redirect.File)]
      [] OTHER ->
            [err |-> "unsupported redirect operator", io |-> io, st |-> st]

\* The condition without its redirect test.
CacheEligible_AnyRedirect(runErr, cmd) == runErr = ""

\* Line 988: which results executeProcess puts into the cache.
CacheEligible(runErr, cmd) == runErr = "" /\ cmd.Redirect = Nil

\* command.Run() in executeProcess: start the binary and wait for it.
\* (runErr, exitCode, stdout text, stderr text, state)
RunCommand(cmd, io, st) ==
    IF ~isExternalCommandAvailable(st.os, cmd.Name)
    THEN [runErr |-> "exec: executable file not found", exit |-> 1,
          out |-> "", err |-> "",
          st |-> Logged(st, [ev |-> "spawn", cmd |-> cmd, started |-> FALSE,
                             stdinSrc |-> io.stdin, stdin |-> "",
                             stdout |-> io.stdout, stderr |-> io.stderr,
                             env |-> GetAllEnv(st.envManager),
                             dir |-> GetWorkingDir(st.envManager)])]
    ELSE Bind(ChildOutcome(RunBinary(cmd.Name, cmd.Args, "",
                                     GetAllEnv(st.envManager), st.os.files),
                           io),
              LAMBDA o :
                [runErr |-> IF o.exit = 0 THEN "" ELSE "exit status",
                 exit |-> o.exit,
                 out |-> IF io.stdout = "stdoutBuf" THEN o.out ELSE "",
                 err |-> IF io.stderr = "stderrBuf" THEN o.err ELSE "",
                 st |-> Logged(
                          Logged(st, [ev |-> "spawn", cmd |-> cmd,
                                      started |-> TRUE,
                                      stdinSrc |-> io.stdin, stdin |-> "",
                                      stdout |-> io.stdout, stderr |-> io.stderr,
                                      env |-> GetAllEnv(st.envManager),
                                      dir |-> GetWorkingDir(st.envManager)]),
                          [ev |-> "wait", cmd |-> cmd, exit |-> o.exit])])

\* A lookup made for every command, redirected or not.
CacheLookup_AnyRedirect(cmd, st) ==
    Bind(CacheGet(st.cache, cmd.Name, cmd.Args, st.now),
         LAMBDA get :
            [hit |-> get.hit, result |-> get.result,
             st |-> Logged([st EXCEPT !.cache = get.cache],
                           [ev |-> "cacheGet", cmd |-> cmd, hit |-> get.hit])])

\* Lines 927-931: the lookup made for a command without a redirect.
\* (hit, result, state)
CacheLookup(cmd, st) ==
    IF cmd.Redirect # Nil
    THEN [hit |-> FALSE, result |-> NoResult, st |-> st]
    ELSE Bind(CacheGet(st.cache, cmd.Name, cmd.Args, st.now),
              LAMBDA get :
                [hit |-> get.hit, result |-> get.result,
                 st |-> Logged([st EXCEPT !.cache = get.cache],
                               [ev |-> "cacheGet", cmd |-> cmd,
                                hit |-> get.hit])])

\* Lines 933-961: the child's stdio, bound to the redirect's file or to the
\* capture buffers.  (error, stdio bindings, state)
BindStdio(cmd, st) ==
    IF cmd.Redirect # Nil
    THEN setupRedirect(NilStdio, cmd.Redirect[1], st)
    ELSE [err |-> "",
          io |-> [NilStdio EXCEPT !.stdout = "stdoutBuf", !.stderr = "stderrBuf"],
          st |-> st]

\* A result whose exit code is 1 for every failed run.
ProcessResult_FlatExitCode(cmd, run) ==
    Ret(CommandResult(cmd, run.runErr = "", IF run.runErr = "" THEN 0 ELSE 1,
                      run.out, run.err, ModeInterpreted),
        "", run.st)

\* Lines 978-992: the result built from the finished run, cached if eligible.
ProcessResult(cmd, run) ==
    Bind(CommandResult(cmd, run.runErr = "", run.exit, run.out, run.err,
                       ModeInterpreted),
         LAMBDA result :
            IF CacheEligible(run.runErr, cmd)
            THEN Ret(result, "",
                     Logged([run.st EXCEPT !.cache =
                                CachePut(@, cmd.Name, cmd.Args, result,
                                         run.st.now)],
                            [ev |-> "cachePut", cmd |-> cmd]))
            ELSE Ret(result, "", run.st))

executeProcess(cmd, st) ==
    Bind(CacheLookup(cmd, st),
         LAMBDA cached :
            IF cached.hit
            THEN Ret(cached.result, "", cached.st)
            ELSE Bind(BindStdio(cmd, cached.st),
                      LAMBDA rd :
                        IF rd.err # ""
                        THEN Ret(CommandResult(cmd, FALSE, 1, "",
                                               "redirect error: " \o rd.err,
                                               ModeInterpreted), "", rd.st)
                        ELSE ProcessResult(cmd,
                                           RunCommand(cmd, rd.io, rd.st))))

executeHybrid(cmd, st) == executeProcess(cmd, st)

\* The result with its ExitCode field left at the zero value.
RejectedResult_NoExitCode(cmd, detail) ==
    CommandResult(cmd, FALSE, 0, "", "Security violation: " \o detail,
                  ModeInterpreted)

\* Lines 555-561 and 665-671: the result of a rejected command.
RejectedResult(cmd, detail) ==
    CommandResult(cmd, FALSE, 1, "", "Security violation: " \o detail,
                  ModeInterpreted)

\* A CommandResult handed back with a nil error; the log keeps it.
Returned(result, st) ==
    Ret(result, "", Logged(st, [ev |-> "done", res |-> result]))

ExecuteCommand(cmd, st) ==
    LET detail == CheckCommand(cmd)
        st1 == Logged(st, [ev |-> "check", cmd |-> cmd, ok |-> detail = ""])
    IN  IF detail # ""
        THEN Returned(RejectedResult(cmd, detail), st1)
        ELSE
          LET mode == decideExecutionMode(cmd, st1)
          IN  Bind(CASE mode = ModeInterpreted -> executeInterpreted(cmd, st1)
                     [] mode = ModeProcess -> executeProcess(cmd, st1)
                     [] mode = ModeHybrid -> executeHybrid(cmd, st1),
                   LAMBDA r :
                      IF r.err # "" THEN Ret(NoResult, r.err, r.st)
                      ELSE Returned([r.res EXCEPT !.Mode = mode], r.st))

executeProcessWithInput(cmd, input, st) ==
    LET spawn(started) == [ev |-> "spawn", cmd |-> cmd, started |-> started,
                           stdinSrc |-> "pipe", stdin |-> input,
                           stdout |-> "stdoutBuf", stderr |-> "stderrBuf",
                           env |-> GetAllEnv(st.envManager),
                           dir |-> GetWorkingDir(st.envManager)]
    IN  IF ~isExternalCommandAvailable(st.os, cmd.Name)
        THEN Ret(CommandResult(cmd, FALSE, 1, "",
                               "exec: executable file not found",
                               ModeInterpreted),
                 "", Logged(st, spawn(FALSE)))
        ELSE
          LET io == [stdin |-> "pipe", stdout |-> "stdoutBuf",
                     stderr |-> "stderrBuf"]
              st1 == Logged(st, spawn(TRUE))
          IN  Bind(RunBinary(cmd.Name, cmd.Args, input,
                             GetAllEnv(st.envManager), st.os.files),
                   LAMBDA b :
                      IF st.fault /\ ~b.readsStdin /\ input # ""
                      THEN Ret(NoResult, "failed to write to stdin", st1)
                      ELSE Bind(ChildOutcome(b, io),
                                LAMBDA o :
                                   Ret(CommandResult(cmd, o.exit = 0, o.exit,
                                                     o.out, o.err,
                                                     ModeInterpreted),
                                       "",
                                       Logged(st1, [ev |-> "wait",
                                                    cmd |-> cmd,
                                                    exit |-> o.exit]))))

ExecuteCommandWithInput(cmd, input, st) ==
    LET detail == CheckCommand(cmd)
        st1 == Logged(st, [ev |-> "check", cmd |-> cmd, ok |-> detail = ""])
    IN  IF detail # ""
        THEN Returned(RejectedResult(cmd, detail), st1)
        ELSE
          Bind(executeProcessWithInput(cmd, input, st1),
               LAMBDA r :
                  IF r.err # "" THEN Ret(NoResult, r.err, r.st)
                  ELSE Returned([r.res EXCEPT !.Mode = ModeProcess], r.st))

(***************************************************************************)
(* Pipelines.                                                               *)
(***************************************************************************)
\* A flattener that takes the right operand first.
RECURSIVE collectPipelineCommands_RightFirst(_)
collectPipelineCommands_RightFirst(node) ==
    CASE node.kind = "PipeNode" ->
            collectPipelineCommands_RightFirst(node.Right) \o
            collectPipelineCommands_RightFirst(node.Left)
      [] node.kind = "CommandNode" -> <<node>>
      [] OTHER -> <<>>

RECURSIVE collectPipelineCommands(_)
collectPipelineCommands(node) ==
    CASE node.kind = "PipeNode" ->
            collectPipelineCommands(node.Left) \o
            collectPipelineCommands(node.Right)
      [] node.kind = "CommandNode" -> <<node>>
      [] OTHER -> <<>>

\* Later stages handed straight to executeProcessWithInput.
ExecuteStage_Unchecked(i, cmd, previousOutput, st) ==
    LET st1 == Logged(st, [ev |-> "stage", i |-> i, cmd |-> cmd,
                           input |-> previousOutput])
    IN  Bind(IF i = 1 THEN ExecuteCommand(cmd, st1)
             ELSE executeProcessWithInput(cmd, previousOutput, st1),
             LAMBDA r :
                IF r.err # "" THEN r
                ELSE Ret(r.res, "",
                         Logged(r.st, [ev |-> "stageDone", i |-> i,
                                       result |-> r.res])))

\* Lines 602-608: the first stage runs as a plain command, every later one
\* with the previous output as its input.
ExecuteStage(i, cmd, previousOutput, st) ==
    LET st1 == Logged(st, [ev |-> "stage", i |-> i, cmd |-> cmd,
                           input |-> previousOutput])
    IN  Bind(IF i = 1 THEN ExecuteCommand(cmd, st1)
             ELSE ExecuteCommandWithInput(cmd, previousOutput, st1),
             LAMBDA r :
                IF r.err # "" THEN r
                ELSE Ret(r.res, "",
                         Logged(r.st, [ev |-> "stageDone", i |-> i,
                                       result |-> r.res])))

\* A stage taken as failed only when it left an error text.
StageFailed_ByErrorText(result) == result.Error # ""

\* Line 617: the pipeline stops at a stage whose result is not a success.
StageFailed(result) == ~result.Success

\* The error text handed on instead of the output.
NextInput_ErrorText(result) == result.Error

\* Line 628: what is handed to the next stage.
NextInput(result) == result.Output

RECURSIVE PipelineLoop(_, _, _, _, _)
PipelineLoop(commands, i, results, previousOutput, st) ==
    IF i > Len(commands)
    THEN IF Len(results) = 0
         THEN Ret(NoResult, PanicIndex, st)
         ELSE Ret(PipelineResult(TRUE, 0, results[Len(results)].Output, "",
                                 results), "", st)
    ELSE
      Bind(ExecuteStage(i, commands[i], previousOutput, st),
           LAMBDA r :
              IF r.err # "" THEN Ret(NoResult, r.err, r.st)
              ELSE IF StageFailed(r.res)
              THEN Ret(PipelineResult(FALSE, r.res.ExitCode, r.res.Output,
                                      r.res.Error, Append(results, r.res)),
                       "", r.st)
              ELSE PipelineLoop(commands, i + 1, Append(results, r.res),
                                NextInput(r.res), r.st))

ExecutePipeline(pipeline, st) ==
    Bind(PipelineLoop(collectPipelineCommands(pipeline), 1, <<>>, "",
                      Logged(st, [ev |-> "pipeline", node |-> pipeline])),
         LAMBDA r :
            IF r.err # "" THEN r
            ELSE Ret(r.res, "",
                     Logged(r.st, [ev |-> "pipelineDone", res |-> r.res])))

(***************************************************************************)
(* Control flow and Execute.                                                *)
(***************************************************************************)
\* A condition that passes whatever its command returned.
ConditionHolds_AnyResult(cmdResult) == TRUE

\* Line 1176: the truth value of a condition command's result.
ConditionHolds(cmdResult) == cmdResult.Success /\ cmdResult.ExitCode = 0

\* (truth value, fatal error, state)
evaluateCondition(condition, st) ==
    IF condition.kind = "CommandNode"
    THEN Bind(ExecuteCommand(condition,
                             Logged(st, [ev |-> "cond", node |-> condition])),
              LAMBDA r :
                 IF r.err # "" THEN Ret(FALSE, r.err, r.st)
                 ELSE Ret(ConditionHolds(r.res), "", r.st))
    ELSE Ret(FALSE, "unsupported condition node type",
             Logged(st, [ev |-> "cond", node |-> condition]))

RECURSIVE Execute(_, _)

ExecuteIf(ifNode, st) ==
    Bind(evaluateCondition(ifNode.Condition, st),
         LAMBDA c :
            IF c.err # "" THEN Ret(NoResult, c.err, c.st)
            ELSE IF c.res THEN Execute(ifNode.Then, c.st)
            ELSE IF ifNode.Else # Nil THEN Execute(ifNode.Else[1], c.st)
            ELSE Ret(ExecutionResult(TRUE, 0, <<>>), "", c.st))

RECURSIVE ForLoop(_, _, _, _)
ForLoop(forNode, i, result, st) ==
    IF i > Len(forNode.List)
    THEN Ret([result EXCEPT !.Success = TRUE, !.ExitCode = 0], "", st)
    ELSE
      Bind(Execute(forNode.Body,
                   Logged([st EXCEPT !.envManager =
                              SetEnv(@, forNode.Variable, forNode.List[i])],
                          [ev |-> "bind", variable |-> forNode.Variable,
                           item |-> forNode.List[i], index |-> i])),
           LAMBDA r :
              IF r.err # "" THEN Ret(NoResult, r.err, r.st)
              ELSE
                LET result1 == [result EXCEPT !.Commands = @ \o r.res.Commands]
                IN  IF ~r.res.Success
                    THEN Ret([result1 EXCEPT !.Success = FALSE,
                                             !.ExitCode = r.res.ExitCode],
                             "", r.st)
                    ELSE ForLoop(forNode, i + 1, result1, r.st))

ExecuteFor(forNode, st) ==
    ForLoop(forNode, 1, ExecutionResult(FALSE, 0, <<>>), st)

\* The limit tested after the counter has passed it.
CeilingReached_Late(iterations) == iterations > maxIterations

\* Line 1130: the test made at the top of every turn of the loop.
CeilingReached(iterations) == iterations >= maxIterations

WhileCeilingError == "while loop exceeded maximum iterations"

RECURSIVE WhileLoop(_, _, _, _)
WhileLoop(whileNode, iterations, result, st) ==
    IF CeilingReached(iterations)
    THEN Ret(NoResult, WhileCeilingError, st)
    ELSE
      Bind(evaluateCondition(whileNode.Condition, st),
           LAMBDA c :
              IF c.err # "" THEN Ret(NoResult, c.err, c.st)
              ELSE IF ~c.res
              THEN Ret([result EXCEPT !.Success = TRUE, !.ExitCode = 0],
                       "", c.st)
              ELSE
                Bind(Execute(whileNode.Body, c.st),
                     LAMBDA r :
                        IF r.err # "" THEN Ret(NoResult, r.err, r.st)
                        ELSE
                          LET result1 ==
                                [result EXCEPT
                                    !.Commands = @ \o r.res.Commands]
                          IN  IF ~r.res.Success
                              THEN Ret([result1 EXCEPT
                                          !.Success = FALSE,
                                          !.ExitCode = r.res.ExitCode],
                                       "", r.st)
                              ELSE WhileLoop(whileNode, iterations + 1,
                                             result1, r.st)))

ExecuteWhile(whileNode, st) ==
    WhileLoop(whileNode, 0, ExecutionResult(FALSE, 0, <<>>), st)

\* Lines 469-473 (and the four copies below them): a failing node is recorded
\* in the result; the `break` that follows leaves only the switch statement,
\* so the enclosing `for` carries on with the next node.
RecordNode(result, commands, success, exitCode) ==
    LET result1 == [result EXCEPT !.Commands = @ \o commands]
    IN  IF ~success
        THEN [result1 EXCEPT !.Success = FALSE, !.ExitCode = exitCode]
        ELSE result1

\* The switch of Execute's loop (lines 461-541): the handler the node's type
\* selects, and from its return value the command results to append, whether
\* the node succeeded, and its exit code.  An assignment or a function
\* definition appends nothing and is never a failure.
NodeResult(node, st) ==
    LET of(r, commands) ==
            IF r.err # ""
            THEN [commands |-> <<>>, success |-> FALSE, exitCode |-> 0,
                  err |-> r.err, st |-> r.st]
            ELSE [commands |-> commands, success |-> r.res.Success,
                  exitCode |-> r.res.ExitCode, err |-> "", st |-> r.st]
        none(err, st1) ==
            [commands |-> <<>>, success |-> TRUE, exitCode |-> 0,
             err |-> err, st |-> st1]
    IN  CASE node.kind = "CommandNode" ->
                Bind(ExecuteCommand(node, st),
                     LAMBDA r : of(r, IF r.err = "" THEN <<r.res>> ELSE <<>>))
          [] node.kind = "PipeNode" ->
                Bind(ExecutePipeline(node, st),
                     LAMBDA r :
                        of(r, IF r.err = "" THEN r.res.Results ELSE <<>>))
          [] node.kind = "IfNode" ->
                Bind(ExecuteIf(node, st),
                     LAMBDA r :
                        of(r, IF r.err = "" THEN r.res.Commands ELSE <<>>))
          [] node.kind = "ForNode" ->
                Bind(ExecuteFor(node, st),
                     LAMBDA r :
                        of(r, IF r.err = "" THEN r.res.Commands ELSE <<>>))
          [] node.kind = "WhileNode" ->
                Bind(ExecuteWhile(node, st),
                     LAMBDA r :
                        of(r, IF r.err = "" THEN r.res.Commands ELSE <<>>))
          [] node.kind = "AssignmentNode" ->
                none("", Logged([st EXCEPT !.envManager =
                                    SetEnv(@, node.Name, node.Value)],
                                [ev |-> "assign", variable |-> node.Name,
                                 value |-> node.Value]))
          [] node.kind = "FunctionNode" ->
                none("", st)
          [] OTHER ->
                none("unsupported node type", st)

\* One turn of Execute's loop.
ExecuteNode(node, result, st) ==
    Bind(NodeResult(node, st),
         LAMBDA n :
            IF n.err # "" THEN Ret(NoResult, n.err, n.st)
            ELSE Ret(RecordNode(result, n.commands, n.success, n.exitCode),
                     "", n.st))

\* Lines 544-546: what Execute returns once its loop has run out of nodes.
FinishExecute(result) == [result EXCEPT !.Success = TRUE]

RECURSIVE ExecuteLoop(_, _, _, _)
ExecuteLoop(nodes, i, result, st) ==
    IF i > Len(nodes) THEN Ret(FinishExecute(result), "", st)
    ELSE Bind(ExecuteNode(nodes[i], result, st),
              LAMBDA r :
                 IF r.err # "" THEN r
                 ELSE ExecuteLoop(nodes, i + 1, r.res, r.st))

Execute(script, st) ==
    ExecuteLoop(script.Nodes, 1, ExecutionResult(FALSE, 0, <<>>), st)

(***************************************************************************)
(* The scripts handed to Execute.                                           *)
(***************************************************************************)
echoA    == CommandNode("echo", <<"a">>, Nil)
falseCmd == CommandNode("false", <<>>, Nil)
rmCmd    == CommandNode("rm", <<"-rf", "/">>, Nil)
printP   == CommandNode("Print", <<"p">>, Nil)
printenvX == CommandNode("printenv", <<"X">>, Nil)
catCmd   == CommandNode("cat", <<>>, Nil)
catF     == CommandNode("cat", <<"f">>, Nil)
nosuch   == CommandNode("nosuch", <<>>, Nil)
readF    == CommandNode("ReadFile", <<"f">>, Nil)
getenvX  == CommandNode("GetEnv", <<"X">>, Nil)
lsMissing == CommandNode("ls", <<"nodir">>, Nil)
testNoF  == CommandNode("test", <<"!", "-e", "f">>, Nil)
writeF   == CommandNode("WriteFile", <<"f", "x">>, Nil)
setenvX  == CommandNode("SetEnv", <<"X", "2">>, Nil)
chdirTmp == CommandNode("ChangeDir", <<"/tmp">>, Nil)
nosuchToF == CommandNode("nosuch", <<>>, <<RedirectNode(">", "f", 1)>>)
echoErrToF == CommandNode("echo", <<"a">>, <<RedirectNode(">", "f", 2)>>)
printBadOp == CommandNode("Print", <<"p">>, <<RedirectNode("|&", "f", 1)>>)
printToF == CommandNode("Print", <<"p">>, <<RedirectNode(">", "f", 1)>>)
printAppendF == CommandNode("Print", <<"p">>, <<RedirectNode(">>", "f", 1)>>)
echoAppendF == CommandNode("echo", <<"a">>, <<RedirectNode(">>", "f", 1)>>)
echoToF  == CommandNode("echo", <<"a">>, <<RedirectNode(">", "f", 1)>>)
falseToF == CommandNode("false", <<>>, <<RedirectNode(">", "f", 1)>>)
echoToDir == CommandNode("echo", <<"a">>, <<RedirectNode(">", "/nodir/g", 1)>>)
echoBadOp == CommandNode("echo", <<"a">>, <<RedirectNode("|&", "f", 1)>>)
echoErrOut == CommandNode("echo", <<"a">>, <<RedirectNode("2>&1", "", 2)>>)
lsErrOut == CommandNode("ls", <<"nodir">>, <<RedirectNode("2>&1", "", 2)>>)

Body(nodes) == ScriptNode(nodes)

\* The nodes every sequence of up to MaxScriptLen top-level nodes is built of.
BasicNodes ==
    {echoA, falseCmd, rmCmd, printP}

\* Scripts with pipelines, redirects and control flow.
CompoundScripts ==
    { <<PipeNode(echoA, catCmd)>>,
      <<PipeNode(PipeNode(echoA, catCmd), catCmd)>>,
      <<PipeNode(echoA, PipeNode(catCmd, catCmd))>>,
      <<PipeNode(echoA, falseCmd), echoA>>,
      <<PipeNode(falseCmd, catCmd), echoA>>,
      <<PipeNode(echoA, PipeNode(rmCmd, catCmd))>>,
      <<PipeNode(echoA, PipeNode(nosuch, catCmd))>>,
      <<PipeNode(rmCmd, catCmd)>>,
      <<PipeNode(echoA, printP)>>,
      <<PipeNode(printP, catCmd)>>,
      <<PipeNode(printenvX, catCmd)>>,
      <<PipeNode(echoToF, catCmd)>>,
      <<PipeNode(FunctionNode, FunctionNode)>>,
      <<PipeNode(echoA, FunctionNode)>>,
      <<nosuch, echoA>>,
      <<lsMissing, echoA>>,
      <<PipeNode(echoA, lsMissing)>>,
      <<readF>>,
      <<catF, catF>>,
      <<echoToF, echoA>>,
      <<echoA, echoToF>>,
      <<printToF, printAppendF>>,
      <<echoToF, echoAppendF>>,
      <<falseToF>>,
      <<echoToDir>>,
      <<echoBadOp>>,
      <<nosuchToF, echoA>>,
      <<echoErrToF>>,
      <<printBadOp>>,
      <<echoErrOut>>,
      <<echoA, echoErrOut, falseCmd>>,
      <<FunctionNode, echoA>>,
      <<RedirectNode(">", "f", 1), echoA>>,
      <<IfNode(echoA, Body(<<printP>>), Nil)>>,
      <<IfNode(falseCmd, Body(<<printP>>), Nil), echoA>>,
      <<IfNode(falseCmd, Body(<<printP>>), <<Body(<<falseCmd>>)>>), echoA>>,
      <<IfNode(rmCmd, Body(<<echoA>>), <<Body(<<printP>>)>>)>>,
      <<IfNode(printP, Body(<<falseCmd, echoA>>), Nil)>>,
      <<IfNode(PipeNode(echoA, catCmd), Body(<<echoA>>), Nil)>>,
      <<ForNode("X", <<"1", "2">>, Body(<<printenvX>>))>>,
      <<ForNode("X", <<"1", "2">>, Body(<<falseCmd, echoA>>)), echoA>>,
      <<ForNode("X", <<"1">>, Body(<<PipeNode(printenvX, catCmd)>>))>>,
      <<WhileNode(falseCmd, Body(<<echoA>>)), echoA>>,
      <<WhileNode(echoA, Body(<<printP>>)), echoA>>,
      <<WhileNode(rmCmd, Body(<<echoA>>))>>,
      <<WhileNode(testNoF, Body(<<writeF>>)), echoA>>,
      <<lsErrOut>>,
      <<setenvX, printenvX>>,
      <<setenvX, getenvX>>,
      <<chdirTmp, echoA>>,
      <<PipeNode(echoA, lsErrOut)>>,
      <<WhileNode(echoA, Body(<<WhileNode(echoA, Body(<<printP>>))>>))>>,
      <<WhileNode(echoA, Body(<<WhileNode(falseCmd, Body(<<echoA>>))>>)),
        echoA>>,
      <<ForNode("X", <<"1", "2">>, Body(<<WhileNode(echoA, Body(<<>>))>>))>>,
      <<AssignmentNode("X", "2"), printenvX>>,
      <<AssignmentNode("X", "2"), getenvX>>,
      <<AssignmentNode("X", "2"),
        IfNode(echoA, Body(<<PipeNode(echoA, printenvX)>>), Nil)>>,
      <<AssignmentNode("X", "1"),
        WhileNode(printenvX, Body(<<IfNode(falseCmd, Body(<<>>), Nil)>>))>> }

RECURSIVE SeqsUpTo(_, _)
SeqsUpTo(S, n) ==
    IF n = 0 THEN {<<>>}
    ELSE LET shorter == SeqsUpTo(S, n - 1)
         IN  shorter \cup {Append(s, x) : s \in shorter, x \in S}

Scripts ==
    {ScriptNode(nodes) :
        nodes \in SeqsUpTo(BasicNodes, MaxScriptLen) \cup CompoundScripts}

(***************************************************************************)
(* State.                                                                   *)
(*   script  the ScriptNode of the Execute call in progress (or of the last *)
(*           one)                                                           *)
(*   eng     the engine and its world: pc (index of the top-level node the  *)
(*           loop of Execute handles next, 0 when no call is in progress),  *)
(*           result (the ExecutionResult being built), ret (what the last   *)
(*           call returned), ran (for each top-level node handled so far,   *)
(*           whether it failed) and st (envManager, os, cache, clock, log)  *)
(*   byp     the same engine run on the same inputs with its cache bypassed *)
(*   calls   number of Execute calls started                                *)
(*   worldChanges  number of edits made to the file system from outside     *)
(*   turns   turns of the loop of Execute taken in the current call          *)
(*   workers for each goroutine calling ExecuteCommand on a process-mode     *)
(*           command concurrently with the others, where it stands           *)
(*   threads for each goroutine using the EnvironmentManager, the operation  *)
(*           it is in and where it stands in it                              *)
(*   mu      the EnvironmentManager's sync.RWMutex                           *)
(*   aliased whether em.environment is the very map of a Session that the    *)
(*           caller still holds                                              *)
(*   mgr     an EnvironmentManager with its maps as objects: workingDir,     *)
(*           environment (the address of its map) and maps (the map at each  *)
(*           address)                                                        *)
(*   sessions  the Sessions CreateSession has handed out                      *)
(*   spawn   the preparation of a child process: what it has read so far     *)
(*   seen    the states the manager went through during that preparation     *)
(*   last    the last operation made on the manager, with its error and the  *)
(*           state it found                                                  *)
(*   ops     number of operations made on the manager                        *)
(*   heap    the CommandResult objects allocated so far; an address is an    *)
(*           index into it                                                   *)
(*   refCache  the CommandCache of that engine, holding addresses            *)
(*   returned  the addresses ExecuteCommand has returned, each with the       *)
(*           fields the object had when it was returned                      *)
(*   pipeTree  the pipeline handed to collectPipelineCommands (Nil before)     *)
(*   collected  what collectPipelineCommands returned for it (Nil before)    *)
(***************************************************************************)
VARIABLES script, eng, byp, calls, worldChanges, turns,
          workers, threads, mu, aliased,
          mgr, sessions, spawn, seen, last, ops,
          heap, refCache, returned, pipeTree, collected,
          envPath, adders, registry, regMu, regThreads

vars == <<script, eng, byp, calls, worldChanges, turns,
          workers, threads, mu, aliased,
          mgr, sessions, spawn, seen, last, ops,
          heap, refCache, returned, pipeTree, collected,
          envPath, adders, registry, regMu, regThreads>>

\* The state of one sequential caller of Execute, and the state of the
\* goroutines that share an engine or an EnvironmentManager.
engineVars == <<script, eng, byp, calls, worldChanges, turns>>

\* The state of the sequential caller of one EnvironmentManager whose process
\* spawns read the manager while other goroutines change it.
managerVars == <<mgr, sessions, spawn, seen, last, ops>>

\* The CommandResult objects of one engine and its cache, by address.
resultVars == <<heap, refCache, returned>>

\* A pipeline tree and the stages collected from it.
collectVars == <<pipeTree, collected>>

\* The PATH variable of one EnvironmentManager and the goroutines adding
\* directories to it.
pathVars == <<envPath, adders>>

\* One registry Cache, its lock, and the goroutines calling it.
registryVars == <<registry, regMu, regThreads>>

dataVars == <<managerVars, resultVars, collectVars, pathVars, registryVars>>

sharedVars == <<workers, threads, mu, aliased, dataVars>>

concurrentVars == <<workers, threads, mu, aliased>>

notManagerVars ==
    <<engineVars, concurrentVars, resultVars, collectVars, pathVars, registryVars>>

notResultVars ==
    <<engineVars, concurrentVars, managerVars, collectVars, pathVars, registryVars>>

notPathVars ==
    <<engineVars, concurrentVars, managerVars, resultVars, collectVars,
      registryVars>>

notRegistryVars ==
    <<engineVars, concurrentVars, managerVars, resultVars, collectVars,
      pathVars>>

notCollectVars ==
    <<engineVars, concurrentVars, managerVars, resultVars, pathVars, registryVars>>

BaseBinaries == {"echo", "false", "cat", "printenv", "rm", "ls", "test"}

\* NewEnvironmentManager in a process started in the root directory with an
\* empty environment of its own apart from PATH.
NewEnvironmentManager ==
    [workingDir |-> RootDir, environment |-> 1,
     maps |-> <<[k \in {"PATH"} |-> "/bin"]>>]

\* A goroutine that is not inside AppendToPath or PrependToPath.
IdleAdder == [pc |-> "idle", op |-> "none", dir |-> "", currentPath |-> <<>>]

\* NewCache (cache.go:28-35): both maps empty.  `disk` is the metadata
\* directory under c.dir (package name to the age of its file), `files` the
\* tarball files that exist.
NewCache ==
    [metadata |-> [n \in {} |-> ""], tarballs |-> [k \in {} |-> ""],
     disk |-> [n \in {} |-> ""], files |-> {}]

\* A goroutine that is not inside a method of the Cache.
IdleCaller == [pc |-> "idle", op |-> "none", act |-> "none"]

NoSpawn == [pc |-> "idle", env |-> [k \in {} |-> ""], dir |-> RootDir]

NoOperation ==
    [op |-> "none", err |-> "", target |-> RootDir,
     before |-> StoreState(NewEnvironmentManager)]

EmptyMap == [k \in {} |-> ""]

InitialEnviron == [k \in {"PATH"} |-> "/bin"]

\* NewExecutionEngine over NewEnvironmentManager, in a world with the given
\* binaries on the search path.
NewExecutionEngine(path, bypass) ==
    [envManager |-> [workingDir |-> "/", environment |-> InitialEnviron],
     os |-> [files |-> EmptyMap, environ |-> InitialEnviron, path |-> path,
             cwd |-> "/"],
     cache |-> [entries |-> EmptyMap, bypass |-> bypass],
     now |-> 0,
     log |-> <<>>,
     fault |-> FALSE]

NoReturn == [kind |-> "none", res |-> NoResult, err |-> ""]

NewRun(path, bypass) ==
    [pc |-> 0, result |-> ExecutionResult(FALSE, 0, <<>>), ret |-> NoReturn,
     ran |-> <<>>, st |-> NewExecutionEngine(path, bypass)]

Init ==
    /\ script = ScriptNode(<<>>)
    /\ \E path \in {BaseBinaries, BaseBinaries \cup {"Print"}} :
          /\ eng = NewRun(path, FALSE)
          /\ byp = NewRun(path, TRUE)
    /\ calls = 0
    /\ worldChanges = 0
    /\ turns = 0
    /\ workers = [c \in 1..MaxCallers |-> "idle"]
    /\ threads = [t \in 1..MaxThreads |-> [op |-> "none", pc |-> "idle"]]
    /\ mu = [writer |-> FALSE, readers |-> 0]
    /\ aliased = FALSE
    /\ mgr = NewEnvironmentManager
    /\ sessions = <<>>
    /\ spawn = NoSpawn
    /\ seen = {}
    /\ last = NoOperation
    /\ ops = 0
    /\ heap = <<>>
    /\ refCache = [entries |-> EmptyMap, bypass |-> FALSE]
    /\ returned = <<>>
    /\ pipeTree = Nil
    /\ collected = Nil
    /\ envPath = <<"/bin">>
    /\ adders = [t \in 1..MaxAdders |-> IdleAdder]
    /\ registry = NewCache
    /\ regMu = [writer |-> 0, readers |-> {}]
    /\ regThreads = [t \in 1..MaxRegistryThreads |-> IdleCaller]

Idle == eng.pc = 0 /\ byp.pc = 0

\* Execute lines 454-458: a call starts with an empty result.
StartRun(r) ==
    [r EXCEPT !.pc = 1, !.result = ExecutionResult(FALSE, 0, <<>>),
              !.ret = NoReturn, !.ran = <<>>, !.st.log = <<>>]

Call(s) ==
    /\ Idle
    /\ calls < MaxCalls
    /\ script' = s
    /\ eng' = StartRun(eng)
    /\ byp' = StartRun(byp)
    /\ calls' = calls + 1
    /\ turns' = 0
    /\ UNCHANGED <<worldChanges, sharedVars>>

\* One turn of the loop of Execute on the node at pc.
StepRun(r, fault) ==
    IF r.pc \notin 1..Len(script.Nodes) THEN r
    ELSE
      LET node == script.Nodes[r.pc]
          st0 == [r.st EXCEPT !.fault = fault]
      IN  Bind(NodeResult(node, st0),
               LAMBDA n :
                  IF n.err # ""
                  THEN [r EXCEPT
                          !.pc = 0,
                          !.ret = [kind |-> IF n.err = PanicIndex THEN "panic"
                                            ELSE "error",
                                   res |-> NoResult, err |-> n.err],
                          !.ran = Append(@, [index |-> r.pc, failed |-> FALSE,
                                             exitCode |-> 0]),
                          !.st = [n.st EXCEPT !.fault = FALSE]]
                  ELSE [r EXCEPT
                          !.pc = @ + 1,
                          !.result = ExecuteNode(node, r.result, st0).res,
                          !.ran = Append(@, [index |-> r.pc,
                                             failed |-> ~n.success,
                                             exitCode |-> n.exitCode]),
                          !.st = [n.st EXCEPT !.fault = FALSE]])

ExecuteStep ==
    /\ \/ eng.pc \in 1..Len(script.Nodes)
       \/ byp.pc \in 1..Len(script.Nodes)
    /\ \E fault \in BOOLEAN :
          /\ eng' = StepRun(eng, fault)
          /\ byp' = StepRun(byp, fault)
    /\ turns' = turns + 1
    /\ UNCHANGED <<script, calls, worldChanges, sharedVars>>

\* An Execute that stays where it is once its loop has run out of nodes.
ReturnRun_Never(r) == r

\* The loop has run out of nodes: Execute returns its result.
ReturnRun(r) ==
    IF r.pc # Len(script.Nodes) + 1 THEN r
    ELSE [r EXCEPT !.pc = 0,
                   !.result = FinishExecute(r.result),
                   !.ret = [kind |-> "result", res |-> FinishExecute(r.result),
                            err |-> ""]]

ExecuteReturn ==
    /\ \/ eng.pc = Len(script.Nodes) + 1
       \/ byp.pc = Len(script.Nodes) + 1
    /\ eng' = ReturnRun(eng)
    /\ byp' = ReturnRun(byp)
    /\ UNCHANGED <<script, calls, worldChanges, turns, sharedVars>>

\* Time passes.
Tick ==
    /\ eng.st.now < MaxTime
    /\ eng' = [eng EXCEPT !.st.now = @ + 1]
    /\ byp' = [byp EXCEPT !.st.now = @ + 1]
    /\ UNCHANGED <<script, calls, worldChanges, turns, sharedVars>>

\* Somebody else writes the file f.
OutsideWrite(content) ==
    /\ worldChanges < MaxWorldChanges
    /\ eng' = [eng EXCEPT !.st.os = WriteFileContent(@, "f", content)]
    /\ byp' = [byp EXCEPT !.st.os = WriteFileContent(@, "f", content)]
    /\ worldChanges' = worldChanges + 1
    /\ UNCHANGED <<script, calls, turns, sharedVars>>

Next ==
    \/ \E s \in Scripts : Call(s)
    \/ ExecuteStep
    \/ ExecuteReturn
    \/ Tick
    \/ \E content \in {"v1"} : OutsideWrite(content)

Spec == Init /\ [][Next]_vars

\* Execute runs its loop on the caller's goroutine: a turn of the loop that can
\* be taken is taken (every command invocation terminates), and so is the
\* return that follows the last turn.
TurnTaken ==
    /\ \/ eng.pc \in 1..Len(script.Nodes)
       \/ byp.pc \in 1..Len(script.Nodes)
    /\ turns' = turns + 1

LiveSpec == Spec /\ WF_turns(TurnTaken) /\ WF_vars(ExecuteReturn)

(***************************************************************************)
(* Concurrent callers of one engine.  Each goroutine runs ExecuteCommand on *)
(* a process-mode command: security check, cache lookup (a miss), then      *)
(* command.Run(), which starts the process and waits for it.  The engine    *)
(* holds a ProcessPool (NewProcessPool(10, 30s)) but executeProcess and     *)
(* executeProcessWithInput never ask it for a slot.                         *)
(***************************************************************************)
\* ExecuteCommand lines 552-562: the command passes the security check.
WorkerCheck(c) ==
    /\ workers[c] = "idle"
    /\ workers' = [workers EXCEPT ![c] = "checked"]
    /\ UNCHANGED <<engineVars, threads, mu, aliased, dataVars>>

\* executeProcess lines 927-931: the cache has nothing for the command.
WorkerLookup(c) ==
    /\ workers[c] = "checked"
    /\ workers' = [workers EXCEPT ![c] = "missed"]
    /\ UNCHANGED <<engineVars, threads, mu, aliased, dataVars>>

\* executeProcess line 965, command.Run(): the process is started.
WorkerStart(c) ==
    /\ workers[c] = "missed"
    /\ workers' = [workers EXCEPT ![c] = "running"]
    /\ UNCHANGED <<engineVars, threads, mu, aliased, dataVars>>

\* The process exits and command.Run() returns.
WorkerExit(c) ==
    /\ workers[c] = "running"
    /\ workers' = [workers EXCEPT ![c] = "exited"]
    /\ UNCHANGED <<engineVars, threads, mu, aliased, dataVars>>

\* executeProcess lines 978-992 and ExecuteCommand 585-587: the result is
\* built and handed back.
WorkerReturn(c) ==
    /\ workers[c] = "exited"
    /\ workers' = [workers EXCEPT ![c] = "idle"]
    /\ UNCHANGED <<engineVars, threads, mu, aliased, dataVars>>

PoolNext ==
    \E c \in 1..MaxCallers :
        \/ WorkerCheck(c)
        \/ WorkerLookup(c)
        \/ WorkerStart(c)
        \/ WorkerExit(c)
        \/ WorkerReturn(c)

PoolSpec == Init /\ [][PoolNext]_vars

(***************************************************************************)
(* Concurrent users of one EnvironmentManager (pkg/environment/manager.go). *)
(* Each goroutine calls one operation at a time.  The operations of the     *)
(* manager take em.mu, for reading or for writing; Session.SetEnv takes no  *)
(* lock and writes the Session's own map, which ApplySession makes the      *)
(* manager's map.                                                           *)
(***************************************************************************)
\* Operations that hold em.mu.RLock while they read.
ReadLockedOps == {"GetWorkingDir", "GetEnv", "GetAllEnv", "ExportEnvironment"}

\* Operations that hold em.mu.Lock while they write the map or the directory.
WriteLockedOps ==
    {"ChangeDir", "SetEnv", "UnsetEnv", "ApplySession",
     "RestoreOriginalEnvironment"}

\* CreateSession holds em.mu.Lock while it copies the map.
CopyLockedOps == {"CreateSession"}

\* Operations a caller can start (ExportEnvironment is also the tail of
\* RestoreOriginalEnvironment).
EnvOps ==
    ReadLockedOps \cup WriteLockedOps \cup CopyLockedOps \cup {"Session.SetEnv"}

\* A goroutine calls an operation.
EnvCall(t, op) ==
    /\ threads[t].pc = "idle"
    /\ threads' = [threads EXCEPT ![t] = [op |-> op, pc |-> "called"]]
    /\ UNCHANGED <<engineVars, workers, mu, aliased, dataVars>>

\* em.mu.RLock()
EnvRLock(t) ==
    /\ threads[t].pc = "called"
    /\ threads[t].op \in ReadLockedOps
    /\ ~mu.writer
    /\ mu' = [mu EXCEPT !.readers = @ + 1]
    /\ threads' = [threads EXCEPT ![t].pc = "in"]
    /\ UNCHANGED <<engineVars, workers, aliased, dataVars>>

\* The deferred em.mu.RUnlock()
EnvRUnlock(t) ==
    /\ threads[t].pc = "in"
    /\ threads[t].op \in ReadLockedOps
    /\ mu' = [mu EXCEPT !.readers = @ - 1]
    /\ threads' = [threads EXCEPT ![t] = [op |-> "none", pc |-> "idle"]]
    /\ UNCHANGED <<engineVars, workers, aliased, dataVars>>

\* em.mu.Lock()
EnvLock(t) ==
    /\ threads[t].pc = "called"
    /\ threads[t].op \in WriteLockedOps \cup CopyLockedOps
    /\ ~mu.writer
    /\ mu.readers = 0
    /\ mu' = [mu EXCEPT !.writer = TRUE]
    /\ threads' = [threads EXCEPT ![t].pc = "in"]
    /\ UNCHANGED <<engineVars, workers, aliased, dataVars>>

\* em.mu.Unlock().  ApplySession has stored the Session's own map in
\* em.environment (line 254); RestoreOriginalEnvironment has replaced the map
\* by a fresh one (line 136) and goes on to ExportEnvironment (line 146).
EnvUnlock(t) ==
    /\ threads[t].pc = "in"
    /\ threads[t].op \in WriteLockedOps \cup CopyLockedOps
    /\ mu' = [mu EXCEPT !.writer = FALSE]
    /\ aliased' = CASE threads[t].op = "ApplySession" -> TRUE
                     [] threads[t].op = "RestoreOriginalEnvironment" -> FALSE
                     [] OTHER -> aliased
    /\ threads' = [threads EXCEPT ![t] =
                      IF threads[t].op = "RestoreOriginalEnvironment"
                      THEN [op |-> "ExportEnvironment", pc |-> "called"]
                      ELSE [op |-> "none", pc |-> "idle"]]
    /\ UNCHANGED <<engineVars, workers, dataVars>>

\* Session.SetEnv starts writing s.environment[key] (line 245), no lock taken.
SessionWrite(t) ==
    /\ threads[t].pc = "called"
    /\ threads[t].op = "Session.SetEnv"
    /\ threads' = [threads EXCEPT ![t].pc = "in"]
    /\ UNCHANGED <<engineVars, workers, mu, aliased, dataVars>>

\* The write of Session.SetEnv is done.
SessionWritten(t) ==
    /\ threads[t].pc = "in"
    /\ threads[t].op = "Session.SetEnv"
    /\ threads' = [threads EXCEPT ![t] = [op |-> "none", pc |-> "idle"]]
    /\ UNCHANGED <<engineVars, workers, mu, aliased, dataVars>>

EnvNext ==
    \E t \in 1..MaxThreads :
        \/ \E op \in EnvOps \ {"ExportEnvironment"} : EnvCall(t, op)
        \/ EnvRLock(t)
        \/ EnvRUnlock(t)
        \/ EnvLock(t)
        \/ EnvUnlock(t)
        \/ SessionWrite(t)
        \/ SessionWritten(t)

EnvSpec == Init /\ [][EnvNext]_vars

(***************************************************************************)
(* One EnvironmentManager used by its owner (SetEnv, ChangeDir, Sessions)   *)
(* while the engine prepares a child process from it on another goroutine.  *)
(* Every method of the manager runs under em.mu and is one step; the        *)
(* preparation of a child calls GetAllEnv and then GetWorkingDir, two       *)
(* steps.                                                                    *)
(***************************************************************************)
EnvKeys == {"X"}

EnvValues == {"1", "2"}

\* The arguments given to ChangeDir.
DirArguments ==
    { [abs |-> TRUE,  parts |-> <<"a">>],
      [abs |-> TRUE,  parts |-> <<"a", "..", "a", "b">>],
      [abs |-> TRUE,  parts |-> <<"nodir">>],
      [abs |-> FALSE, parts |-> <<"b">>],
      [abs |-> FALSE, parts |-> <<"..">>],
      [abs |-> FALSE, parts |-> <<".", "f">>],
      [abs |-> FALSE, parts |-> <<>>] }

\* The record kept of an operation on manager m.
Operation(op, err, target, m) ==
    [op |-> op, err |-> err, target |-> target, before |-> StoreState(m)]

\* The states the manager goes through while a child is being prepared.
Seen(m) == IF spawn.pc = "envRead" THEN seen \cup {StoreState(m)} ELSE seen

ManagerSetEnvCalled(key, value) ==
    /\ ops < MaxManagerOps
    /\ mgr' = ManagerSetEnv(mgr, key, value)
    /\ last' = Operation("SetEnv", "", RootDir, mgr)
    /\ seen' = Seen(mgr')
    /\ ops' = ops + 1
    /\ UNCHANGED <<notManagerVars, sessions, spawn>>

ChangeDirCalled(dir) ==
    /\ ops < MaxManagerOps
    /\ mgr' = ChangeDir(mgr, dir).m
    /\ last' = Operation("ChangeDir", ChangeDir(mgr, dir).err,
                         IF IsAbs(dir) THEN Clean(dir.parts)
                         ELSE Clean(mgr.workingDir \o dir.parts), mgr)
    /\ seen' = Seen(mgr')
    /\ ops' = ops + 1
    /\ UNCHANGED <<notManagerVars, sessions, spawn>>

CreateSessionCalled ==
    /\ ops < MaxManagerOps
    /\ Len(sessions) < MaxSessions
    /\ mgr' = CreateSession(mgr).m
    /\ sessions' = Append(sessions, CreateSession(mgr).session)
    /\ last' = Operation("CreateSession", "", RootDir, mgr)
    /\ seen' = Seen(mgr')
    /\ ops' = ops + 1
    /\ UNCHANGED <<notManagerVars, spawn>>

SessionSetEnvCalled(i, key, value) ==
    /\ ops < MaxManagerOps
    /\ i \in 1..Len(sessions)
    /\ mgr' = SessionSetEnv(mgr, sessions[i], key, value)
    /\ last' = Operation("Session.SetEnv", "", RootDir, mgr)
    /\ seen' = Seen(mgr')
    /\ ops' = ops + 1
    /\ UNCHANGED <<notManagerVars, sessions, spawn>>

ApplySessionCalled(i) ==
    /\ ops < MaxManagerOps
    /\ i \in 1..Len(sessions)
    /\ mgr' = ApplySession(mgr, sessions[i])
    /\ last' = [Operation("ApplySession", "", RootDir, mgr) EXCEPT
                   !.before = [env |-> mgr.maps[sessions[i].environment],
                               dir |-> sessions[i].workingDir]]
    /\ seen' = Seen(mgr')
    /\ ops' = ops + 1
    /\ UNCHANGED <<notManagerVars, sessions, spawn>>

\* executeProcess lines 937-941: the variable block is built from GetAllEnv.
SpawnReadEnv ==
    /\ spawn.pc = "idle"
    /\ spawn' = [pc |-> "envRead", env |-> ManagerGetAllEnv(mgr),
                 dir |-> RootDir]
    /\ seen' = {StoreState(mgr)}
    /\ UNCHANGED <<notManagerVars,
                   mgr, sessions, last, ops>>

\* executeProcess line 944: command.Dir = ee.envManager.GetWorkingDir()
SpawnReadDir ==
    /\ spawn.pc = "envRead"
    /\ spawn' = [spawn EXCEPT !.pc = "ready", !.dir = mgr.workingDir]
    /\ UNCHANGED <<notManagerVars,
                   mgr, sessions, seen, last, ops>>

\* executeProcess line 965: command.Run() with what was read.
SpawnRun ==
    /\ spawn.pc = "ready"
    /\ spawn' = NoSpawn
    /\ seen' = {}
    /\ UNCHANGED <<notManagerVars,
                   mgr, sessions, last, ops>>

ManagerNext ==
    \/ \E key \in EnvKeys, value \in EnvValues : ManagerSetEnvCalled(key, value)
    \/ \E dir \in DirArguments : ChangeDirCalled(dir)
    \/ CreateSessionCalled
    \/ \E i \in 1..MaxSessions, key \in EnvKeys, value \in EnvValues :
          SessionSetEnvCalled(i, key, value)
    \/ \E i \in 1..MaxSessions : ApplySessionCalled(i)
    \/ SpawnReadEnv
    \/ SpawnReadDir
    \/ SpawnRun

ManagerSpec == Init /\ [][ManagerNext]_vars

(***************************************************************************)
(* ExecuteCommand with its results as objects.  A *CommandResult is an      *)
(* address in `heap`; the cache keeps a snapshot of the result it is given  *)
(* and Get hands out the entry's result.                                    *)
(***************************************************************************)
\* The commands given to ExecuteCommand.
ResultCommands == {echoA, falseCmd, rmCmd, printP, echoToF}

\* What time.Since(startTime) can measure.
Durations == {1, 2}

\* The engine whose commands are all run afresh.
FreshEngine == NewExecutionEngine(BaseBinaries, TRUE)

\* The fields of the CommandResult a fresh run of cmd creates.
FreshResult(cmd) == ExecuteCommand(cmd, FreshEngine).res

\* Lines 927-931: whether executeProcess answers cmd from the cache.
AnsweredFromCache(cmd) ==
    /\ CheckCommand(cmd) = ""
    /\ decideExecutionMode(cmd, FreshEngine) # ModeInterpreted
    /\ cmd.Redirect = Nil
    /\ CacheGet(refCache, cmd.Name, cmd.Args, 0).hit

\* Lines 987-990: whether executeProcess puts the result of cmd in the cache.
PutInCache(cmd) ==
    /\ CheckCommand(cmd) = ""
    /\ decideExecutionMode(cmd, FreshEngine) # ModeInterpreted
    /\ CacheEligible(IF FreshResult(cmd).Success THEN "" ELSE "exit status",
                     cmd)

\* The address ExecuteCommand returns: the cache's own object on a hit (line
\* 929, `return cached, nil`), a new object otherwise.
ReturnedAddress(cmd) ==
    IF AnsweredFromCache(cmd)
    THEN CacheGet(refCache, cmd.Name, cmd.Args, 0).result
    ELSE Len(heap) + 1

\* Lines 585-586: result.Duration and result.Mode are written.
Stamped(object, elapsed, mode) ==
    [Command |-> object.Command, Success |-> object.Success,
     ExitCode |-> object.ExitCode, Output |-> object.Output,
     Error |-> object.Error, Mode |-> mode, Duration |-> elapsed]

\* The object of a result that has not been stamped yet.
Unstamped(result) == Stamped(result, 0, ModeInterpreted)

ExecuteCommandCalled(cmd, elapsed) ==
    /\ Len(returned) < MaxResults
    /\ LET addr  == ReturnedAddress(cmd)
           mode  == IF CheckCommand(cmd) # "" THEN ModeInterpreted
                    ELSE decideExecutionMode(cmd, FreshEngine)
           \* the objects after executeProcess: the new result, and the
           \* cache's snapshot of it when it is put in the cache
           heap1 == IF addr <= Len(heap) THEN heap
                    ELSE IF PutInCache(cmd)
                    THEN heap \o <<Unstamped(FreshResult(cmd)),
                                   Unstamped(FreshResult(cmd))>>
                    ELSE Append(heap, Unstamped(FreshResult(cmd)))
           heap2 == [heap1 EXCEPT ![addr] = Stamped(@, elapsed, mode)]
       IN  /\ heap' = heap2
           /\ refCache' =
                 IF AnsweredFromCache(cmd) \/ ~PutInCache(cmd)
                 THEN CacheGet(refCache, cmd.Name, cmd.Args, 0).cache
                 ELSE CachePut(refCache, cmd.Name, cmd.Args, Len(heap) + 2, 0)
           /\ returned' = Append(returned, [addr |-> addr,
                                            fields |-> heap2[addr]])
    /\ UNCHANGED notResultVars

ResultNext ==
    \E cmd \in ResultCommands, elapsed \in Durations :
        ExecuteCommandCalled(cmd, elapsed)

ResultSpec == Init /\ [][ResultNext]_vars

(***************************************************************************)
(* collectPipelineCommands applied to pipelines of every shape.             *)
(***************************************************************************)
\* The commands at the leaves.
LeafCommands == {echoA, catCmd, falseCmd}

\* The pipe trees with exactly n leaves.
RECURSIVE PipeTrees(_)
PipeTrees(n) ==
    IF n = 1 THEN LeafCommands
    ELSE UNION { {PipeNode(l, r) : l \in PipeTrees(k), r \in PipeTrees(n - k)} :
                 k \in 1..(n - 1) }

\* The PipeNodes handed to ExecutePipeline.
Pipelines == UNION {PipeTrees(n) : n \in 2..MaxLeaves}

\* ExecutePipeline is called with a pipeline.
PipelineGiven(pipeline) ==
    /\ pipeTree = Nil
    /\ pipeTree' = <<pipeline>>
    /\ UNCHANGED <<collected, notCollectVars>>

\* Line 592: commands := ee.collectPipelineCommands(pipeline)
PipelineCollected ==
    /\ pipeTree # Nil
    /\ collected = Nil
    /\ collected' = <<collectPipelineCommands(pipeTree[1])>>
    /\ UNCHANGED <<pipeTree, notCollectVars>>

CollectNext ==
    \/ \E pipeline \in Pipelines : PipelineGiven(pipeline)
    \/ PipelineCollected

CollectSpec == Init /\ [][CollectNext]_vars

(***************************************************************************)
(* AppendToPath and PrependToPath called by several goroutines               *)
(* (manager.go:161-189).  PATH is held as the sequence of its directories;   *)
(* GetEnv and SetEnv each run under the manager's lock, so each is one step. *)
(***************************************************************************)
PathDirs == {"/a", "/b"}

PathOps == {"AppendToPath", "PrependToPath"}

\* Lines 173-177 and 183-187: the value handed to SetPath.
AddedToPath(op, currentPath, dir) ==
    IF currentPath = <<>> THEN <<dir>>
    ELSE IF op = "AppendToPath" THEN Append(currentPath, dir)
    ELSE <<dir>> \o currentPath

\* A goroutine calls AppendToPath(dir) or PrependToPath(dir).
PathCalled(t, op, dir) ==
    /\ adders[t].pc = "idle"
    /\ adders' = [adders EXCEPT ![t] = [pc |-> "GetPath", op |-> op,
                                         dir |-> dir, currentPath |-> <<>>]]
    /\ UNCHANGED <<envPath, notPathVars>>

\* Lines 172, 182: currentPath := em.GetPath()
GetPath(t) ==
    /\ adders[t].pc = "GetPath"
    /\ adders' = [adders EXCEPT ![t].pc = "SetPath",
                                 ![t].currentPath = envPath]
    /\ UNCHANGED <<envPath, notPathVars>>

\* Lines 173-177, 183-187: em.SetPath(...)
SetPath(t) ==
    /\ adders[t].pc = "SetPath"
    /\ envPath' = AddedToPath(adders[t].op, adders[t].currentPath,
                              adders[t].dir)
    /\ adders' = [adders EXCEPT ![t].pc = "returned"]
    /\ UNCHANGED notPathVars

PathNext ==
    \/ \E t \in 1..MaxAdders, op \in PathOps, dir \in PathDirs :
            PathCalled(t, op, dir)
    \/ \E t \in 1..MaxAdders : GetPath(t)
    \/ \E t \in 1..MaxAdders : SetPath(t)

PathSpec == Init /\ [][PathNext]_vars

(***************************************************************************)
(* The registry Cache called by several goroutines (registry/cache.go).  A   *)
(* map access is a step with a beginning and an end: a goroutine at          *)
(* "reading" is looking a key up, one at "writing" is inserting or deleting  *)
(* entries.  An entry's timestamp is held as "fresh" or "stale" (older than  *)
(* maxAge).                                                                  *)
(***************************************************************************)
PackageName == "pkg"

TarballKey == "pkg@1"

TarballPath == "/cache/pkg-1.tgz"

ReadLockedMethods == {"GetPackageMetadata", "GetTarball"}

WriteLockedMethods ==
    {"SetPackageMetadata", "SetTarball", "CleanExpired", "Clear"}

\* The maps a method touches.
MapsOf(op) ==
    CASE op \in {"GetPackageMetadata", "SetPackageMetadata", "CleanExpired"} ->
            {"metadata"}
      [] op \in {"GetTarball", "SetTarball"} -> {"tarballs"}
      [] op = "Clear" -> {"metadata", "tarballs"}
      [] OTHER -> {}

Stored(map, key, value) ==
    [k \in (DOMAIN map) \cup {key} |-> IF k = key THEN value ELSE map[k]]

Deleted(map, keys) == [k \in (DOMAIN map) \ keys |-> map[k]]

\* A goroutine calls a method of the Cache.
RegistryCalled(t, op) ==
    /\ regThreads[t].pc = "idle"
    /\ regThreads' = [regThreads EXCEPT ![t] = [pc |-> "lock", op |-> op,
                                                 act |-> "none"]]
    /\ UNCHANGED <<registry, regMu, notRegistryVars>>

\* c.mu.RLock() of the two Get methods.
RegistryRLock(t) ==
    /\ regThreads[t].pc = "lock"
    /\ regThreads[t].op \in ReadLockedMethods
    /\ regMu.writer = 0
    /\ regMu' = [regMu EXCEPT !.readers = @ \cup {t}]
    /\ regThreads' = [regThreads EXCEPT ![t].pc = "reading"]
    /\ UNCHANGED <<registry, notRegistryVars>>

\* c.mu.Lock() of the Set methods, CleanExpired and Clear; what the method
\* then does to its maps.
RegistryLock(t) ==
    /\ regThreads[t].pc = "lock"
    /\ regThreads[t].op \in WriteLockedMethods
    /\ regMu.writer = 0 /\ regMu.readers = {}
    /\ regMu' = [regMu EXCEPT !.writer = t]
    /\ regThreads' = [regThreads EXCEPT
                        ![t].pc = "writing",
                        ![t].act = CASE regThreads[t].op = "CleanExpired" -> "clean"
                                     [] regThreads[t].op = "Clear" -> "clear"
                                     [] OTHER -> "store"]
    /\ UNCHANGED <<registry, notRegistryVars>>

\* loadMetadataFromDisk, lines 137-160: the file is there, parses, and is not
\* older than maxAge.
LoadableFromDisk(c) ==
    PackageName \in DOMAIN c.disk /\ c.disk[PackageName] = "fresh"

\* What a Get method does after its lookup: "load" stores the entry read from
\* disk (lines 43-46, 161-164), "delete" removes an expired entry or the
\* entry of a vanished tarball (lines 49-52, 81-84), "none" returns.
AfterLookup(op, c) ==
    IF op = "GetPackageMetadata"
    THEN IF PackageName \notin DOMAIN c.metadata
         THEN IF LoadableFromDisk(c) THEN "load" ELSE "none"
         ELSE IF c.metadata[PackageName] = "stale" THEN "delete" ELSE "none"
    ELSE IF TarballKey \notin DOMAIN c.tarballs THEN "none"
         ELSE IF c.tarballs[TarballKey] \notin c.files THEN "delete"
         ELSE "none"

\* The lookup of a Get method ends.
RegistryLookedUp(t) ==
    /\ regThreads[t].pc = "reading"
    /\ regThreads' = [regThreads EXCEPT
                        ![t].act = AfterLookup(regThreads[t].op, registry),
                        ![t].pc = IF AfterLookup(regThreads[t].op, registry)
                                        = "none"
                                  THEN "unlock" ELSE "writing"]
    /\ UNCHANGED <<registry, regMu, notRegistryVars>>

\* The Cache after the map statements of a method.
Written(c, op, act) ==
    CASE act = "load" ->
            [c EXCEPT !.metadata = Stored(@, PackageName, "fresh")]
      [] act = "delete" /\ op = "GetPackageMetadata" ->
            [c EXCEPT !.metadata = Deleted(@, {PackageName})]
      [] act = "delete" /\ op = "GetTarball" ->
            [c EXCEPT !.tarballs = Deleted(@, {TarballKey})]
      [] act = "store" /\ op = "SetPackageMetadata" ->
            [c EXCEPT !.metadata = Stored(@, PackageName, "fresh"),
                      !.disk = Stored(@, PackageName, "fresh")]
      [] act = "store" /\ op = "SetTarball" ->
            [c EXCEPT !.tarballs = Stored(@, TarballKey, TarballPath)]
      [] act = "clean" ->
            [c EXCEPT !.metadata =
                Deleted(@, {n \in DOMAIN c.metadata : c.metadata[n] = "stale"})]
      [] act = "clear" -> NewCache
      [] OTHER -> c

\* The insertions and deletions of a method are done.
RegistryWritten(t) ==
    /\ regThreads[t].pc = "writing"
    /\ registry' = Written(registry, regThreads[t].op, regThreads[t].act)
    /\ regThreads' = [regThreads EXCEPT ![t].pc = "unlock"]
    /\ UNCHANGED <<regMu, notRegistryVars>>

\* The deferred RUnlock or Unlock; the method returns.
RegistryUnlock(t) ==
    /\ regThreads[t].pc = "unlock"
    /\ regMu' = [writer |-> IF regMu.writer = t THEN 0 ELSE regMu.writer,
                 readers |-> regMu.readers \ {t}]
    /\ regThreads' = [regThreads EXCEPT ![t] = IdleCaller]
    /\ UNCHANGED <<registry, notRegistryVars>>

\* More than maxAge passes.
RegistryAged ==
    /\ \/ \E n \in DOMAIN registry.metadata : registry.metadata[n] = "fresh"
       \/ \E n \in DOMAIN registry.disk : registry.disk[n] = "fresh"
    /\ registry' = [registry EXCEPT
                      !.metadata = [n \in DOMAIN @ |-> "stale"],
                      !.disk = [n \in DOMAIN @ |-> "stale"]]
    /\ UNCHANGED <<regMu, regThreads, notRegistryVars>>

\* The tarball file is written by a download, or removed by somebody.
TarballFileChanged ==
    /\ registry' = [registry EXCEPT
                      !.files = IF TarballPath \in @ THEN @ \ {TarballPath}
                                ELSE @ \cup {TarballPath}]
    /\ UNCHANGED <<regMu, regThreads, notRegistryVars>>

RegistryNext ==
    \/ \E t \in 1..MaxRegistryThreads,
          op \in ReadLockedMethods \cup WriteLockedMethods :
            RegistryCalled(t, op)
    \/ \E t \in 1..MaxRegistryThreads : RegistryRLock(t)
    \/ \E t \in 1..MaxRegistryThreads : RegistryLock(t)
    \/ \E t \in 1..MaxRegistryThreads : RegistryLookedUp(t)
    \/ \E t \in 1..MaxRegistryThreads : RegistryWritten(t)
    \/ \E t \in 1..MaxRegistryThreads : RegistryUnlock(t)
    \/ RegistryAged
    \/ TarballFileChanged

RegistrySpec == Init /\ [][RegistryNext]_vars

(***************************************************************************)
(* Properties.                                                              *)
(***************************************************************************)
Log == eng.st.log

HasResult == eng.pc = 0 /\ eng.ret.kind = "result"

FailedNodes == {i \in 1..Len(eng.ran) : eng.ran[i].failed}

FirstFailed == CHOOSE i \in FailedNodes : \A j \in FailedNodes : i <= j

AllCommands(nodes) == \A i \in 1..Len(nodes) : nodes[i].kind = "CommandNode"

\* C1: failure short-circuit.  Once the top-level node at index k has yielded
\* a failing result, no top-level node at a greater index is executed; hence
\* for three sequential commands where the second fails the returned
\* commandResults list has length 2.
C1_FailureShortCircuit ==
    /\ \A k \in 1..Len(eng.ran) : eng.ran[k].failed => k = Len(eng.ran)
    /\ ( /\ HasResult
         /\ Len(script.Nodes) = 3
         /\ AllCommands(script.Nodes)
         /\ FailedNodes # {}
         /\ FirstFailed = 2 )
       => Len(eng.ret.res.Commands) = 2

\* C2: whenever Execute returns a result for a script in which some top-level
\* node failed, the result has success=false and the exit code of the first
\* failing node.
C2_FailureReported ==
    (HasResult /\ FailedNodes # {})
       => /\ ~eng.ret.res.Success
          /\ eng.ret.res.ExitCode = eng.ran[FirstFailed].exitCode

FatalConditions ==
    {"unsupported node type", "unsupported condition node type",
     "while loop exceeded maximum iterations"}

\* C3: Execute returns a fatal error only for a node kind without handler, a
\* condition node of unsupported kind or a while loop past its ceiling; every
\* other failure, a failure to feed a pipeline stage its stdin included, is
\* reported in-band.
C3_FatalOnlyForEngineErrors ==
    eng.ret.kind = "error" => eng.ret.err \in FatalConditions

\* The events of one command invocation lie between its security check and
\* the next security check.
IsRejection(k) == Log[k].ev = "check" /\ ~Log[k].ok

RejectionInBand(prefix) ==
    \A k \in 1..Len(Log) :
        IsRejection(k) =>
            /\ k < Len(Log)
            /\ Log[k + 1].ev = "done"
            /\ Log[k + 1].res.Command = Log[k].cmd
            /\ ~Log[k + 1].res.Success
            /\ Log[k + 1].res.ExitCode = 1
            /\ Log[k + 1].res.Error = prefix \o CheckCommand(Log[k].cmd)

\* C4 (as claimed): a command the security gate rejects comes back, with a
\* nil fatal error, as a CommandResult with success=false, exitCode=1 and
\* errorText "security violation: <detail>", and between the check and the
\* return there is no intrinsic call, spawn, cache lookup or cache insertion.
C4_RejectionInBand_Claimed == RejectionInBand("security violation: ")

\* C4 (amended): the same, the error text being "Security violation: <detail>".
C4_RejectionInBand == RejectionInBand("Security violation: ")

\* A command rejected as a later stage of a pipeline (ExecuteCommandWithInput)
\* after an earlier stage has run and filled the cache.
C4_Witness ==
    \E k \in 2..Len(Log) :
        /\ IsRejection(k)
        /\ Log[k - 1].ev = "stage"
        /\ Log[k - 1].i > 1
        /\ \E j \in 1..(k - 1) : Log[j].ev = "cachePut"

IsExecution(k) == Log[k].ev \in {"intrinsic", "spawn"}

\* C5: every command execution (intrinsic call or process spawn) is directly
\* preceded by an accepting security check of that same command: between the
\* check and the execution lie only that invocation's cache lookup and the
\* opening and closing of its redirect file.
C5_CheckedBeforeExecution ==
    \A j \in 1..Len(Log) :
        IsExecution(j) =>
            \E k \in 1..(j - 1) :
                /\ Log[k].ev = "check"
                /\ Log[k].ok
                /\ Log[k].cmd = Log[j].cmd
                /\ \A m \in (k + 1)..(j - 1) :
                      /\ Log[m].ev \in {"cacheGet", "open", "close"}
                      /\ Log[m].ev = "cacheGet" => Log[m].cmd = Log[j].cmd

\* An intrinsic and a process fed through a pipe have both been executed.
C5_Witness ==
    /\ \E j \in 1..Len(Log) : Log[j].ev = "intrinsic"
    /\ \E j \in 1..Len(Log) : Log[j].ev = "spawn" /\ Log[j].stdinSrc = "pipe"

PipelineStart(j) ==
    CHOOSE p \in 1..(j - 1) :
        /\ Log[p].ev = "pipeline"
        /\ \A q \in (p + 1)..(j - 1) : Log[q].ev # "pipeline"

IsStageDone(e) == e.ev = "stageDone"

IsStage(e) == e.ev = "stage"

\* C7: a pipeline halts at its first failing stage.  The stage results of a
\* PipelineResult are exactly the stages run, in order, none after a failing
\* one; a failing last stage gives success=false with its exit code and
\* error; otherwise every stage has run and the result has success=true and
\* the output of the last stage.
C7_PipelineHalts ==
    \A j \in 1..Len(Log) :
        Log[j].ev = "pipelineDone" =>
            LET p == PipelineStart(j)
                between == SubSeq(Log, p + 1, j - 1)
                done == SelectSeq(between, IsStageDone)
                started == SelectSeq(between, IsStage)
                stages == collectPipelineCommands(Log[p].node)
                res == Log[j].res
                n == Len(done)
            IN  /\ n >= 1
                /\ Len(started) = n
                /\ Len(res.Results) = n
                /\ \A i \in 1..n :
                      /\ res.Results[i] = done[i].result
                      /\ done[i].result.Command = stages[i]
                      /\ i < n => done[i].result.Success
                /\ IF ~done[n].result.Success
                   THEN /\ ~res.Success
                        /\ res.ExitCode = done[n].result.ExitCode
                        /\ res.Error = done[n].result.Error
                   ELSE /\ res.Success
                        /\ n = Len(stages)
                        /\ res.Output = done[n].result.Output

\* A three-stage pipeline was cut short at a failing second stage.
C7_Witness ==
    \E j \in 1..Len(Log) :
        /\ Log[j].ev = "pipelineDone"
        /\ ~Log[j].res.Success
        /\ Len(Log[j].res.Results) = 2
        /\ Len(collectPipelineCommands(Log[PipelineStart(j)].node)) = 3

\* C8: a command named like a registered intrinsic always runs in
\* Interpreted mode and never as a process, wherever it is executed.
C8_IntrinsicAlwaysInterpreted ==
    \A k \in 1..Len(Log) :
        /\ Log[k].ev = "spawn" => ~isStdLibFunction(Log[k].cmd.Name)
        /\ ( /\ Log[k].ev = "done"
             /\ isStdLibFunction(Log[k].res.Command.Name)
             /\ CheckCommand(Log[k].res.Command) = "" )
           => Log[k].res.Mode = ModeInterpreted

IsDone(e) == e.ev = "done"

\* The output/exit-code pairs of the command results of a call, in order.
ResultPairs(log) ==
    LET done == SelectSeq(log, IsDone)
    IN  [i \in 1..Len(done) |-> <<done[i].res.Output, done[i].res.ExitCode>>]

\* C9: cache transparency.  The output/exit-code pairs of the command
\* results are the same with the cache enabled as with the cache bypassed.
C9_CacheTransparency ==
    ResultPairs(eng.st.log) = ResultPairs(byp.st.log)

CacheEntries == eng.st.cache.entries

\* C10: every cache entry stems from the execution of a command without
\* redirect that exited successfully, and is filed under that command's
\* (name, args); every insertion directly follows the wait for such a process.
C10_CacheHoldsEligibleOnly ==
    /\ \A key \in DOMAIN CacheEntries :
          LET r == CacheEntries[key].result
          IN  /\ r.Command.Redirect = Nil
              /\ r.Success
              /\ r.ExitCode = 0
              /\ key = CacheKey(r.Command.Name, r.Command.Args)
    /\ \A j \in 1..Len(Log) :
          Log[j].ev = "cachePut" =>
              /\ Log[j].cmd.Redirect = Nil
              /\ j > 1
              /\ Log[j - 1].ev = "wait"
              /\ Log[j - 1].cmd = Log[j].cmd

\* The cache holds an entry although a redirected command that exited
\* successfully and a command that failed have both been run.
C10_Witness ==
    /\ DOMAIN CacheEntries # {}
    /\ \E j \in 1..Len(Log) :
          /\ Log[j].ev = "done"
          /\ Log[j].res.Command.Redirect # Nil
          /\ Log[j].res.Success
    /\ \E j \in 1..Len(Log) :
          /\ Log[j].ev = "done"
          /\ Log[j].res.Command.Redirect = Nil
          /\ ~Log[j].res.Success
          /\ Log[j].res.Mode = ModeProcess

\* The evaluations of a condition made so far in this Execute call.
CondEvents == {k \in 1..Len(Log) : Log[k].ev = "cond"}

\* The result of the condition command evaluated at log position k: the first
\* result handed back after it.
CondResult(k) ==
    LET later == {j \in (k + 1)..Len(Log) : Log[j].ev = "done"}
    IN  Log[CHOOSE j \in later : \A i \in later : j <= i].res

CondTrue(k) == CondResult(k).Success /\ CondResult(k).ExitCode = 0

\* The call has handled exactly its first node, a while loop whose body is
\* made of plain commands, so every condition evaluated was this loop's.
OneWhileHandled ==
    /\ Len(script.Nodes) >= 1
    /\ script.Nodes[1].kind = "WhileNode"
    /\ script.Nodes[1].Condition.kind = "CommandNode"
    /\ AllCommands(script.Nodes[1].Body.Nodes)
    /\ Len(eng.ran) = 1

CeilingErrorReturned ==
    eng.ret.kind = "error" /\ eng.ret.err = WhileCeilingError

\* C11: while-loop ceiling.  With ceiling N = maxIterations, a while loop never
\* evaluates its condition more than N times; it returns the fatal "exceeded
\* maximum iterations" error only when the condition has been evaluated
\* exactly N times; and a loop whose condition was true at every evaluation
\* ends in that error, after exactly N evaluations.
C11_WhileCeiling ==
    OneWhileHandled =>
        /\ Cardinality(CondEvents) <= maxIterations
        /\ CeilingErrorReturned => Cardinality(CondEvents) = maxIterations
        /\ (\A k \in CondEvents : CondTrue(k)) =>
                /\ CeilingErrorReturned
                /\ Cardinality(CondEvents) = maxIterations

C11_Witness ==
    /\ OneWhileHandled
    /\ CeilingErrorReturned
    /\ Cardinality(CondEvents) = maxIterations
    /\ \A k \in CondEvents : CondTrue(k)

OneForHandled ==
    /\ Len(script.Nodes) >= 1
    /\ script.Nodes[1].kind = "ForNode"
    /\ AllCommands(script.Nodes[1].Body.Nodes)
    /\ Len(eng.ran) = 1
    /\ eng.ret.kind # "error"

\* The bindings of the loop variable made so far, and for the binding at log
\* position k the results of the commands its body execution ran.
BindEvents == {k \in 1..Len(Log) : Log[k].ev = "bind"}

BodyResults(k) ==
    {j \in (k + 1)..Len(Log) :
        /\ Log[j].ev = "done"
        /\ \A b \in BindEvents : b <= k \/ b > j}

BodyFailed(k) == \E j \in BodyResults(k) : ~Log[j].res.Success

\* C13: ExecuteFor binds the items in list order, each before its body runs;
\* the loop stops at the first body execution that fails: no item after it is
\* bound or run, and the loop's result has success=false and the failing
\* body's exit code.
C13_ForStopsAtFailure ==
    OneForHandled =>
        /\ \A k \in BindEvents :
              /\ Log[k].item = script.Nodes[1].List[Log[k].index]
              /\ Log[k].index = Cardinality({b \in BindEvents : b <= k})
        /\ \A k \in BindEvents :
              BodyFailed(k) =>
                  /\ \A b \in BindEvents : b <= k
                  /\ eng.ran[1].failed
                  /\ \E j \in BodyResults(k) :
                        /\ ~Log[j].res.Success
                        /\ eng.ran[1].exitCode = Log[j].res.ExitCode

\* The call has handled exactly its first node, an if whose condition is a
\* command and whose bodies are made of plain commands.
OneIfHandled ==
    /\ Len(script.Nodes) >= 1
    /\ script.Nodes[1].kind = "IfNode"
    /\ script.Nodes[1].Condition.kind = "CommandNode"
    /\ AllCommands(script.Nodes[1].Then.Nodes)
    /\ script.Nodes[1].Else # Nil =>
            AllCommands(script.Nodes[1].Else[1].Nodes)
    /\ Len(eng.ran) = 1
    /\ eng.ret.kind # "error"

\* The results handed back, in order, from log position k on.
ResultsFrom(k) ==
    LET IsDoneEvent(e) == e.ev = "done"
        dones == SelectSeq(SubSeq(Log, k, Len(Log)), IsDoneEvent)
    IN  [i \in 1..Len(dones) |-> dones[i].res]

\* The body the if node's condition selects: none when it is false and there
\* is no else.
SelectedBody(ifNode, truth) ==
    IF truth THEN ifNode.Then.Nodes
    ELSE IF ifNode.Else # Nil THEN ifNode.Else[1].Nodes
    ELSE <<>>

\* C14: ExecuteIf evaluates its condition command exactly once, takes it as
\* true iff the result has success=true and exitCode=0, and then runs the
\* commands of thenBody and no others if true, of elseBody and no others if
\* false and present; with a false condition and no elseBody the node is a
\* success with exit code 0 and no command results.  The condition's own
\* result, failing or rejected, is not among the node's command results.
C14_IfSelectsBranch ==
    OneIfHandled =>
        /\ Cardinality(CondEvents) = 1
        /\ \A k \in CondEvents :
              LET after == ResultsFrom(k)
                  ran == [i \in 1..(Len(after) - 1) |-> after[i + 1]]
                  body == SelectedBody(script.Nodes[1], CondTrue(k))
              IN  /\ Len(after) >= 1
                  /\ after[1].Command = script.Nodes[1].Condition
                  /\ Len(ran) <= Len(body)
                  /\ body # <<>> => ran # <<>>
                  /\ \A i \in 1..Len(ran) : ran[i].Command = body[i]
                  /\ eng.result.Commands = ran
                  /\ body = <<>> =>
                        ~eng.ran[1].failed /\ eng.ran[1].exitCode = 0

\* A rejected condition has sent an if node down its else path.
C14_Witness ==
    /\ OneIfHandled
    /\ script.Nodes[1].Else # Nil
    /\ \E k \in CondEvents :
          /\ ~CondTrue(k)
          /\ CheckCommand(script.Nodes[1].Condition) # ""
          /\ Len(ResultsFrom(k)) >= 2
    /\ ~eng.ran[1].failed

\* The variable written at log position a is not written again, by an
\* assignment or a loop binding, up to position j.
StillAssigned(a, j) ==
    \A k \in (a + 1)..j :
        Log[k].ev \in {"assign", "bind"} => Log[k].variable # Log[a].variable

\* C15: assignment visibility.  After an assignment name=value, and until the
\* name is assigned or bound again, every process spawned later in the same
\* call has name=value in its environment and every later GetEnv intrinsic on
\* that name returns value, in nested bodies as well.
C15_AssignmentVisible ==
    \A a \in 1..Len(Log) :
        Log[a].ev = "assign" =>
            \A j \in (a + 1)..Len(Log) :
                StillAssigned(a, j) =>
                    /\ Log[j].ev = "spawn" =>
                            /\ Log[a].variable \in DOMAIN Log[j].env
                            /\ Log[j].env[Log[a].variable] = Log[a].value
                    /\ ( /\ Log[j].ev = "done"
                         /\ Log[j].res.Command.Name = "GetEnv"
                         /\ Log[j].res.Command.Args = <<Log[a].variable>> ) =>
                            Log[j].res.Output = Log[a].value

\* What an independent reader finds in the file, "" when there is none.
FileContent(file) ==
    IF FileExists(eng.st.os, file) THEN eng.st.os.files[file] ELSE ""

\* The node at index i is a command with one argument that sends its stdout
\* to a file with the operator op.
RedirectsOutput(i, op) ==
    /\ i <= Len(script.Nodes)
    /\ script.Nodes[i].kind = "CommandNode"
    /\ script.Nodes[i].Name \in {"Print", "echo"}
    /\ Len(script.Nodes[i].Args) = 1
    /\ script.Nodes[i].Redirect # Nil
    /\ script.Nodes[i].Redirect[1].Op = op
    /\ script.Nodes[i].Redirect[1].Fd = 1
    /\ script.Nodes[i].Redirect[1].File \in WritableFiles

\* C16: redirect round trip.  With nobody else writing the file, after
\* `Print x > f` the file f holds x, and after a following `Print y >> f` it
\* holds x followed by y.
C16_RedirectRoundTrip ==
    (worldChanges = 0 /\ RedirectsOutput(1, ">")) =>
        LET first == script.Nodes[1]
            f == first.Redirect[1].File
        IN  /\ Len(eng.ran) = 1 => FileContent(f) = first.Args[1]
            /\ ( /\ Len(eng.ran) = 2
                 /\ RedirectsOutput(2, ">>")
                 /\ script.Nodes[2].Redirect[1].File = f ) =>
                    FileContent(f) = first.Args[1] \o script.Nodes[2].Args[1]

SupportedRedirectOps == {">", ">>", "<", "2>&1", "&>"}

BadRedirect(cmd) ==
    cmd.Redirect # Nil /\ cmd.Redirect[1].Op \notin SupportedRedirectOps

\* C17: a command whose redirect operator is not one of the five supported
\* ones is never executed, as an intrinsic or as a process, and comes back
\* as a failed CommandResult with exitCode 1 (no fatal error).
C17_BadOperatorRejected ==
    /\ \A k \in 1..Len(Log) :
          Log[k].ev \in {"intrinsic", "spawn"} => ~BadRedirect(Log[k].cmd)
    /\ \A k \in 1..Len(Log) :
          (Log[k].ev = "done" /\ BadRedirect(Log[k].res.Command)) =>
              ~Log[k].res.Success /\ Log[k].res.ExitCode = 1
    /\ \A i \in 1..Len(eng.ran) :
          ( /\ script.Nodes[i].kind = "CommandNode"
            /\ BadRedirect(script.Nodes[i]) ) => eng.ret.kind # "error"

\* C18: every file handle opened for a redirect is closed before the
\* command's execution returns, whether the command exits with zero or not,
\* the redirect cannot be set up, or the process cannot be started.
C18_RedirectHandlesClosed ==
    \A k \in 1..Len(Log) :
        Log[k].ev = "open" =>
            \E j \in (k + 1)..Len(Log) :
                /\ Log[j].ev = "close"
                /\ Log[j].file = Log[k].file
                /\ \A i \in (k + 1)..(j - 1) : Log[i].ev # "done"

\* A redirected command whose process could not be started has returned.
C18_Witness ==
    \E k, j, d \in 1..Len(Log) :
        /\ k < j /\ j < d
        /\ Log[k].ev = "open"
        /\ Log[j].ev = "spawn" /\ ~Log[j].started
        /\ Log[j].cmd.Redirect # Nil
        /\ Log[d].ev = "done" /\ Log[d].res.Command = Log[j].cmd

\* The external processes started by the engine that have not exited yet.
Outstanding == {c \in 1..MaxCallers : workers[c] = "running"}

\* C19: the number of external-process executions of one engine that are
\* outstanding at the same time never exceeds the pool's maximum, whatever
\* the interleaving of the goroutines calling into the engine.
C19_PoolBound == Cardinality(Outstanding) <= PoolMaxSize

\* How goroutine t is touching the manager's map or working directory right
\* now: the write of Session.SetEnv lands in the manager's map when that map
\* is the Session's.
Access(t) ==
    IF threads[t].pc # "in" THEN "none"
    ELSE IF threads[t].op \in WriteLockedOps THEN "write"
    ELSE IF threads[t].op \in ReadLockedOps \cup CopyLockedOps THEN "read"
    ELSE IF threads[t].op = "Session.SetEnv" /\ aliased THEN "write"
    ELSE "none"

\* C20: in the EnvironmentManager a mutation of the variable map or of the
\* working directory excludes every other read or write of that state while
\* it lasts; reads overlap only with reads.
C20_EnvSingleWriter ==
    \A t1, t2 \in 1..MaxThreads :
        (t1 # t2 /\ Access(t1) = "write") => Access(t2) = "none"

\* C21: the variable block and the working directory given to one spawn are
\* those of one state the EnvironmentManager was in while the spawn was being
\* prepared.
C21_SpawnSnapshot ==
    spawn.pc = "ready" => [env |-> spawn.env, dir |-> spawn.dir] \in seen

\* C22: a CommandResult that ExecuteCommand has returned keeps the fields it
\* had when it was returned, whatever is executed afterwards.
C22_ResultImmutable ==
    \A i \in 1..Len(returned) : heap[returned[i].addr] = returned[i].fields

\* The CommandResults of the commands executed so far in this call, in order.
ExecutedResults ==
    [i \in 1..Len(SelectSeq(Log, IsDone)) |-> SelectSeq(Log, IsDone)[i].res]

\* C23: the command list of the ExecutionResult that Execute returns is the
\* sequence of the results of the commands executed during the call, in
\* execution order, none missing.
C23_CommandsAggregated ==
    HasResult => eng.ret.res.Commands = ExecutedResults

\* The "done" events of the results that are failures.
FailedResults == {k \in 1..Len(Log) : IsDone(Log[k]) /\ ~Log[k].res.Success}

\* The security check that opens the execution whose result is at k.
CheckOf(k) ==
    CHOOSE c \in 1..k : /\ Log[c].ev = "check"
                        /\ \A j \in (c + 1)..k : Log[j].ev # "check"

\* The processes that were waited for during the execution whose result is
\* at k and exited with a code other than 0.
FailedExits(k) ==
    {j \in CheckOf(k)..k : Log[j].ev = "wait" /\ Log[j].exit # 0}

StartedProcesses == {k \in 1..Len(Log) : Log[k].ev = "spawn" /\ Log[k].started}

\* The process started at k was waited for before the engine went on to
\* another command.
WaitedFor(k) ==
    \E j \in (k + 1)..Len(Log) :
        /\ Log[j].ev = "wait"
        /\ Log[j].cmd = Log[k].cmd
        /\ \A i \in (k + 1)..(j - 1) : Log[i].ev \notin {"check", "spawn"}

\* C25: once Execute has returned, with a result or with an error, every
\* process it started has been waited for.
C25_ProcessesReaped ==
    (eng.pc = 0 /\ eng.ret.kind # "none") =>
        \A k \in StartedProcesses : WaitedFor(k)

\* The outputs of the given results, one per line.
RECURSIVE JoinedOutput(_)
JoinedOutput(results) ==
    IF results = <<>> THEN ""
    ELSE IF Len(results) = 1 THEN results[1].Output
    ELSE results[1].Output \o "\n" \o JoinedOutput(Tail(results))

\* C26: when Execute returns after commands that all succeeded, the Output of
\* its ExecutionResult is the output those commands produced (for the single
\* command `Print p` it is "p").
C26_OutputReported ==
    (/\ HasResult
     /\ AllCommands(script.Nodes)
     /\ \A i \in 1..Len(ExecutedResults) : ExecutedResults[i].Success)
        => eng.ret.res.Output = JoinedOutput(ExecutedResults)

\* C27: a ChangeDir whose cleaned absolute path (a relative argument resolved
\* against the previous working directory) is absent or is not a directory
\* returns an error and leaves working directory and variables as they were;
\* any other ChangeDir returns no error and makes that path the working
\* directory.
C27_ChangeDir ==
    last.op = "ChangeDir" =>
        IF Stat(last.target) # "dir"
        THEN /\ last.err # ""
             /\ StoreState(mgr) = last.before
        ELSE /\ last.err = ""
             /\ mgr.workingDir = last.target
             /\ ManagerGetAllEnv(mgr) = last.before.env

\* A relative ChangeDir made in /a has named a regular file and was refused.
C27_Witness ==
    /\ last.op = "ChangeDir"
    /\ last.before.dir = <<"a">>
    /\ Stat(last.target) = "file"
    /\ last.err # ""

\* What the manager answers for each key and for its directory.
ManagerView(m) ==
    [env |-> [k \in EnvKeys |-> ManagerGetEnv(m, k)], dir |-> m.workingDir]

\* C28: a Session.SetEnv leaves what the manager's GetEnv and GetWorkingDir
\* return as it was, before and after the session has been applied; after an
\* ApplySession the manager returns what the session held at that moment.
C28_SessionIsolation ==
    /\ last.op = "Session.SetEnv" =>
          ManagerView(mgr) =
              [env |-> [k \in EnvKeys |->
                          IF k \in DOMAIN last.before.env
                          THEN last.before.env[k] ELSE ""],
               dir |-> last.before.dir]
    /\ last.op = "ApplySession" => StoreState(mgr) = last.before

\* The ways from the root of a pipe tree to its leaves, "L" for a left
\* operand and "R" for a right one.
RECURSIVE LeafPaths(_)
LeafPaths(node) ==
    IF node.kind = "PipeNode"
    THEN {<<"L">> \o way : way \in LeafPaths(node.Left)} \cup
         {<<"R">> \o way : way \in LeafPaths(node.Right)}
    ELSE {<<>>}

RECURSIVE NodeAt(_, _)
NodeAt(node, way) ==
    IF way = <<>> THEN node
    ELSE NodeAt(IF Head(way) = "L" THEN node.Left ELSE node.Right, Tail(way))

\* The leaf at way1 stands to the left of the leaf at way2.
LeftOf(way1, way2) ==
    \E i \in 1..Len(way1) :
        /\ i <= Len(way2)
        /\ SubSeq(way1, 1, i - 1) = SubSeq(way2, 1, i - 1)
        /\ way1[i] = "L"
        /\ way2[i] = "R"

\* C29: collectPipelineCommands returns one stage per leaf of the pipe tree,
\* each leaf at the place given by the number of leaves to its left.
C29_InOrderLeaves ==
    collected # Nil =>
        LET ways == LeafPaths(pipeTree[1])
        IN  /\ Len(collected[1]) = Cardinality(ways)
            /\ \A way \in ways :
                  collected[1][Cardinality({w \in ways : LeftOf(w, way)}) + 1]
                      = NodeAt(pipeTree[1], way)

\* A tree of mixed shape, (echo | (cat | false)) | cat, has been flattened.
C29_Witness ==
    /\ collected # Nil
    /\ pipeTree = <<PipeNode(PipeNode(echoA, PipeNode(catCmd, falseCmd)),
                             catCmd)>>
    /\ collected[1] = <<echoA, catCmd, falseCmd, catCmd>>

\* The errors setupRedirect returns.
RedirectErrors ==
    {"failed to create file", "failed to open file",
     "unsupported redirect operator"}

\* The results of redirected commands that the engine took to a process: not
\* rejected, no intrinsic, and the redirect itself set up without error.
RedirectedRuns ==
    {k \in 1..Len(Log) :
        /\ IsDone(Log[k])
        /\ Log[k].res.Command.Redirect # Nil
        /\ Log[k].res.Mode = ModeProcess
        /\ Log[CheckOf(k)].ok
        /\ Log[k].res.Error \notin
              {"redirect error: " \o e : e \in RedirectErrors}}

\* C30: no cache lookup is made for a command that carries a redirect, and
\* each execution of such a command starts its process anew.
C30_RedirectNeverCached ==
    /\ \A j \in 1..Len(Log) :
          Log[j].ev = "cacheGet" => Log[j].cmd.Redirect = Nil
    /\ \A k \in RedirectedRuns :
          \E j \in CheckOf(k)..k :
              Log[j].ev = "spawn" /\ Log[j].cmd = Log[k].res.Command

\* `echo a` has been run and cached, and then `echo a > f`, which has the
\* same name and arguments, has been run in the same call.
C30_Witness ==
    /\ HasResult
    /\ \E j \in 1..Len(Log) :
          /\ Log[j].ev = "cachePut"
          /\ Log[j].cmd = echoA
          /\ \E k \in RedirectedRuns : k > j /\ Log[k].res.Command = echoToF

\* The condition evaluated at log position k was run for this evaluation: its
\* command was rejected, or called as an intrinsic, or a process was started
\* for it.
ConditionRun(k) ==
    \E j \in (k + 1)..Len(Log) :
        /\ \/ Log[j].ev \in {"intrinsic", "spawn"}
           \/ Log[j].ev = "check" /\ ~Log[j].ok
        /\ \A i \in (k + 1)..(j - 1) : Log[i].ev # "done"

\* The commands whose results were handed back between the evaluation at k
\* and the next evaluation (or the end of the log), the condition's among
\* them.
RanAfter(k) ==
    LET next  == {c \in CondEvents : c > k}
        until == IF next = {} THEN Len(Log)
                 ELSE (CHOOSE c \in next : \A d \in next : c <= d) - 1
        dones == SelectSeq(SubSeq(Log, k, until), IsDone)
    IN  [i \in 1..Len(dones) |-> dones[i].res.Command]

\* C31: ExecuteWhile evaluates its condition anew before every iteration: the
\* condition command is run at each evaluation, the body is run directly
\* after each evaluation that returned true and after no other, and the loop
\* ends as a success at the first evaluation that returns false.
C31_WhileReevaluates ==
    OneWhileHandled =>
        \A k \in CondEvents :
            /\ ConditionRun(k)
            /\ RanAfter(k) =
                  IF CondTrue(k)
                  THEN <<script.Nodes[1].Condition>> \o script.Nodes[1].Body.Nodes
                  ELSE <<script.Nodes[1].Condition>>
            /\ ~CondTrue(k) =>
                  /\ \A c \in CondEvents : c <= k
                  /\ eng.ret.kind # "error"
                  /\ ~eng.ran[1].failed

\* The loop `while test ! -e f; do WriteFile f x; done` has come to its
\* ceiling although its body created f in the first iteration.
C31_StaleCondition ==
    /\ OneWhileHandled
    /\ script.Nodes[1].Condition = testNoF
    /\ CeilingErrorReturned
    /\ FileExists(eng.st.os, "f")

\* The processes started for commands that carry the `2>&1` redirect.
ErrToOutStarted ==
    {k \in StartedProcesses :
        /\ Log[k].cmd.Redirect # Nil
        /\ Log[k].cmd.Redirect[1].Op = "2>&1"}

\* C32: a process started for a command with the `2>&1` redirect has its
\* stderr bound to the destination its stdout is bound to.
C32_StderrFollowsStdout ==
    \A k \in ErrToOutStarted : Log[k].stderr = Log[k].stdout

\* `ls nodir 2>&1` was started by executeProcess, stdout and stderr both
\* unbound, and its message on stderr is in no field of the result.
C32_BothDiscarded ==
    \E k \in ErrToOutStarted :
        /\ Log[k].stdinSrc # "pipe"
        /\ Log[k].cmd = lsErrOut
        /\ Log[k].stdout = "null" /\ Log[k].stderr = "null"
        /\ \E j \in (k + 1)..Len(Log) :
              /\ IsDone(Log[j])
              /\ Log[j].res.Command = lsErrOut
              /\ Log[j].res.Output = "" /\ Log[j].res.Error = ""

\* The node kinds whose case in the switch of Execute does something.
ExecutedKinds ==
    {"CommandNode", "PipeNode", "IfNode", "ForNode", "WhileNode",
     "AssignmentNode"}

\* The leaves of a pipe tree.
RECURSIVE PipeLeaves(_)
PipeLeaves(node) ==
    IF node.kind = "PipeNode"
    THEN PipeLeaves(node.Left) \cup PipeLeaves(node.Right)
    ELSE {node}

\* C33: dispatch is total.  A top-level node of a kind that nothing executes,
\* and a pipe with a leaf that is no command, end the call in a fatal error
\* at that node; no node is passed over.
C33_DispatchTotal ==
    \A i \in 1..Len(eng.ran) :
        LET node  == script.Nodes[eng.ran[i].index]
            fatal == i = Len(eng.ran) /\ eng.ret.kind = "error"
        IN  /\ node.kind \notin ExecutedKinds => fatal
            /\ ( /\ node.kind = "PipeNode"
                 /\ \E leaf \in PipeLeaves(node) : leaf.kind # "CommandNode" )
                    => fatal

\* `echo a | <function definition>` has returned the result of a pipeline of
\* one stage.
C33_LeafDropped ==
    /\ script.Nodes = <<PipeNode(echoA, FunctionNode)>>
    /\ eng.ret.kind = "result"
    /\ Len(eng.ret.res.Commands) = 1

\* C34: a result returned by Execute, and the result ExecuteIf, ExecuteFor or
\* ExecuteWhile handed back for a top-level node, has success=true exactly
\* when its exit code is 0.
C34_SuccessIffZero ==
    /\ HasResult => (eng.ret.res.Success <=> eng.ret.res.ExitCode = 0)
    /\ \A i \in 1..Len(eng.ran) :
          script.Nodes[eng.ran[i].index].kind \in
                {"IfNode", "ForNode", "WhileNode"}
             => (~eng.ran[i].failed <=> eng.ran[i].exitCode = 0)

\* An if statement whose selected body ran a failing command was handed back
\* as a success with that command's exit code.
C34_BranchSuccessNonZero ==
    \E i \in 1..Len(eng.ran) :
        /\ script.Nodes[eng.ran[i].index].kind = "IfNode"
        /\ ~eng.ran[i].failed
        /\ eng.ran[i].exitCode # 0

\* C35: ExecutePipeline ends every PipeNode with a PipelineResult or an error:
\* no call of Execute ends in a run-time panic, and each pipeline that was
\* started and is over has handed back a result or an error.
C35_PipelineNeverCrashes ==
    /\ eng.ret.kind # "panic"
    /\ \A i \in 1..Len(eng.ran) :
          script.Nodes[eng.ran[i].index].kind = "PipeNode" =>
              \/ eng.ret.kind = "error" /\ i = Len(eng.ran)
              \/ \E j \in 1..Len(Log) : Log[j].ev = "pipelineDone"

\* A pipe whose left operand is a pipe has handed back the results of its three
\* stages.
C35_NestedPipeFlattened ==
    \E j \in 1..Len(Log) :
        /\ Log[j].ev = "pipelineDone"
        /\ Log[PipelineStart(j)].node.Left.kind = "PipeNode"
        /\ Len(Log[j].res.Results) = 3

FileRedirectOps == {">", ">>", "<", "&>"}

\* The processes that executeProcess started for commands redirected to or
\* from a file.
FileRedirectStarted ==
    {k \in StartedProcesses :
        /\ Log[k].stdinSrc # "pipe"
        /\ Log[k].cmd.Redirect # Nil
        /\ Log[k].cmd.Redirect[1].Op \in FileRedirectOps}

\* The handle of the file was opened before log position k and was not closed
\* before it.
OpenAt(file, k) ==
    \E o \in 1..(k - 1) :
        /\ Log[o].ev = "open" /\ Log[o].file = file
        /\ \A c \in (o + 1)..(k - 1) :
              ~(Log[c].ev = "close" /\ Log[c].file = file)

\* C36: the file that setupRedirect opened for `>`, `>>`, `<` or `&>` is open
\* when the command's process is started and still open when the process has
\* exited.
C36_RedirectFileOpenWhileRunning ==
    \A k \in FileRedirectStarted :
        /\ OpenAt(Log[k].cmd.Redirect[1].File, k)
        /\ \A w \in (k + 1)..Len(Log) :
              (Log[w].ev = "wait" /\ Log[w].cmd = Log[k].cmd)
                 => OpenAt(Log[k].cmd.Redirect[1].File, w)

\* The intrinsic of the given name has returned without error at log
\* position k.
IntrinsicDone(name, k) ==
    /\ IsDone(Log[k])
    /\ Log[k].res.Command.Name = name
    /\ Log[k].res.Mode = ModeInterpreted
    /\ Log[k].res.Success

\* The variable is not written again after log position k, by an assignment,
\* a loop binding or another SetEnv.
LastWriteOf(variable, k) ==
    \A j \in (k + 1)..Len(Log) :
        /\ Log[j].ev \in {"assign", "bind"} => Log[j].variable # variable
        /\ IntrinsicDone("SetEnv", j) => Log[j].res.Command.Args[1] # variable

\* C37: the intrinsics and the process path see one environment.  A variable
\* set by the SetEnv intrinsic and not written since is in the environment
\* block of every process started later and is what EnvironmentManager.GetEnv
\* returns; the directory of the last ChangeDir intrinsic is the working
\* directory of every process started later.
C37_OneEnvironment ==
    \A k \in 1..Len(Log) :
        /\ IntrinsicDone("SetEnv", k) =>
              LET key   == Log[k].res.Command.Args[1]
                  value == Log[k].res.Command.Args[2]
              IN  LastWriteOf(key, k) =>
                    /\ \A j \in (k + 1)..Len(Log) :
                          Log[j].ev = "spawn" =>
                              /\ key \in DOMAIN Log[j].env
                              /\ Log[j].env[key] = value
                    /\ key \in DOMAIN GetAllEnv(eng.st.envManager)
                    /\ GetAllEnv(eng.st.envManager)[key] = value
        /\ IntrinsicDone("ChangeDir", k) =>
              \A j \in (k + 1)..Len(Log) :
                  ( /\ Log[j].ev = "spawn"
                    /\ \A i \in (k + 1)..j : ~IntrinsicDone("ChangeDir", i) )
                  => Log[j].dir = Log[k].res.Command.Args[1]

\* After `ChangeDir /tmp` the host process is in /tmp and `echo a` was
\* started in the manager's directory.
C37_TwoDirectories ==
    /\ script.Nodes = <<chdirTmp, echoA>>
    /\ eng.st.os.cwd = "/tmp"
    /\ \E j \in StartedProcesses :
          Log[j].dir = "/" /\ \E k \in 1..(j - 1) : IntrinsicDone("ChangeDir", k)

Range(seq) == {seq[i] : i \in 1..Len(seq)}

\* C38: concurrent AppendToPath / PrependToPath calls lose no update.  Once
\* every goroutine has returned from its call, each with a directory of its
\* own, PATH holds all of their directories.
C38_NoLostPathUpdate ==
    ( /\ \A t \in 1..MaxAdders : adders[t].pc = "returned"
      /\ \A t, u \in 1..MaxAdders : t # u => adders[t].dir # adders[u].dir )
    => \A t \in 1..MaxAdders : adders[t].dir \in Range(envPath)

\* Two calls that ran one after the other have both left their directory in
\* PATH.
C38_SequentialCallsKept ==
    /\ \A t \in 1..MaxAdders : adders[t].pc = "returned"
    /\ adders[1].dir # adders[2].dir
    /\ adders[2].currentPath = <<"/bin", adders[1].dir>>
    /\ Range(envPath) = {"/bin", adders[1].dir, adders[2].dir}

\* The goroutine is inside an access to one of the maps.
InMap(t) == regThreads[t].pc \in {"reading", "writing"}

\* C39: the maps of the registry Cache are written only under the exclusive
\* lock, and no two goroutines are inside an access to the same map while one
\* of them is writing it.
C39_MapWritesExclusive ==
    /\ \A t \in 1..MaxRegistryThreads :
          regThreads[t].pc = "writing" => regMu.writer = t
    /\ \A t, u \in 1..MaxRegistryThreads :
          ( /\ t # u
            /\ regThreads[t].pc = "writing"
            /\ InMap(u) )
          => MapsOf(regThreads[t].op) \cap MapsOf(regThreads[u].op) = {}

\* Two goroutines, both under the read lock, are writing the metadata map at
\* the same time.
C39_TwoWritersUnderRLock ==
    /\ regMu.readers = {1, 2}
    /\ \A t \in {1, 2} :
          /\ regThreads[t].op = "GetPackageMetadata"
          /\ regThreads[t].pc = "writing"

====
